---- MODULE Spec2Model ----
(***************************************************************************)
(* A model of the RINEX output stage of gnss-sdr                           *)
(* (src/algorithms/PVT/libs/rinex_printer.cc): the Rinex_Printer writer,   *)
(* its three output streams, its line renderers and its time conversions.  *)
(*                                                                         *)
(* Text is modelled as TLA+ strings, so that the length and the columns of *)
(* every line are those the code produces.  Floating-point inputs are      *)
(* modelled in fixed point: observation values in thousandths, times in    *)
(* milliseconds, navigation parameters as whole numbers.                   *)
(***************************************************************************)
EXTENDS Integers, Sequences, FiniteSets, TLC

(***************************************************************************)
(* Bounds of the model.                                                    *)
(***************************************************************************)
MaxCalls == 2       \* header and record calls made on the writer in one run
MaxSats == 18       \* largest satellite count of one observation epoch
MaxDay == 43824     \* days after 6 January 1980 that are drawn (to 31 December 2099)
MaxSnr == 700       \* largest carrier-to-noise value drawn, in tenths of dB-Hz

(***************************************************************************)
(* Text primitives.                                                        *)
(***************************************************************************)
Blank80 == "                                                                                "

\* std::string(n, ' ') for 0 <= n <= 80.
Spaces(n) == SubSeq(Blank80, 1, n)

Digit(d) == SubSeq("0123456789", d + 1, d + 1)

RECURSIVE NatStr(_)
NatStr(n) == IF n < 10 THEN Digit(n) ELSE NatStr(n \div 10) \o Digit(n % 10)

\* boost::lexical_cast<std::string>(int) and operator<< of an int.
IntStr(n) == IF n < 0 THEN "-" \o NatStr(-n) ELSE NatStr(n)

RECURSIVE Zeros(_)
Zeros(n) == IF n <= 0 THEN "" ELSE "0" \o Zeros(n - 1)

RECURSIVE Pow10(_)
Pow10(k) == IF k = 0 THEN 1 ELSE 10 * Pow10(k - 1)

\* Text padded on the right with spaces to width w; a longer text is
\* returned as it is.
leftJustify(s, w) == IF Len(s) >= w THEN s ELSE s \o Spaces(w - Len(s))

\* Text padded on the left with spaces to width w; a longer text is
\* returned as it is.
rightJustify(s, w) == IF Len(s) >= w THEN s ELSE Spaces(w - Len(s)) \o s

\* An integer rendered in exactly w characters, padded on the left with the
\* character fill; of a longer number the last w characters are kept.
asFixWidthString(x, w, fill) ==
    LET s == IntStr(x)
        pad[k \in 0..w] == IF k = 0 THEN "" ELSE fill \o pad[k - 1]
    IN  IF Len(s) >= w THEN SubSeq(s, Len(s) - w + 1, Len(s))
        ELSE pad[w - Len(s)] \o s

\* asString(double, precision): fixed notation with `precision' decimals.
\* The value is v / 10^k, with k <= precision.
asString(v, k, precision) ==
    LET a == IF v < 0 THEN -v ELSE v
        frac == NatStr(a % Pow10(k))
    IN  (IF v < 0 THEN "-" ELSE "") \o NatStr(a \div Pow10(k)) \o "."
        \o Zeros(k - Len(frac)) \o (IF k = 0 THEN "" ELSE frac)
        \o Zeros(precision - k)

\* The Fortran-style rendering of a whole number v in `length' characters:
\* sign, leading zero, point, decimal digits, D and a signed two-digit
\* exponent.
doub2for(v, length, expLen) ==
    LET a == IF v < 0 THEN -v ELSE v
        digits == IF a = 0 THEN "" ELSE NatStr(a)
        nMant == length - 5 - expLen
        mant == IF Len(digits) >= nMant THEN SubSeq(digits, 1, nMant)
                ELSE digits \o Zeros(nMant - Len(digits))
        e == Len(digits)
    IN  (IF v < 0 THEN "-" ELSE " ") \o "0." \o mant \o "D+"
        \o Zeros(expLen - Len(NatStr(e))) \o NatStr(e)

(***************************************************************************)
(* C integer arithmetic.                                                   *)
(***************************************************************************)
\* Division and remainder of C: the quotient is truncated towards zero.
CDiv(a, b) == IF a >= 0 THEN a \div b ELSE -((-a) \div b)
CMod(a, b) == a - b * CDiv(a, b)

Min(a, b) == IF a < b THEN a ELSE b
Max(a, b) == IF a > b THEN a ELSE b

(***************************************************************************)
(* Calendar arithmetic of the library (boost::posix_time, boost::gregorian)*)
(* that compute_GPS_time relies on, also the reference of to_date_time.    *)
(***************************************************************************)
\* The Gregorian date of the day z days after 1 January 1970.
CivilFromDays(z) ==
    LET zz == z + 719468
        era == zz \div 146097
        doe == zz - era * 146097
        yoe == (doe - doe \div 1460 + doe \div 36524 - doe \div 146096) \div 365
        doy == doe - (365 * yoe + yoe \div 4 - yoe \div 100)
        mp == (5 * doy + 2) \div 153
        d == doy - (153 * mp + 2) \div 5 + 1
        m == IF mp < 10 THEN mp + 3 ELSE mp - 9
        y == yoe + era * 400 + (IF m <= 2 THEN 1 ELSE 0)
    IN  [year |-> y, month |-> m, day |-> d]

\* Days from 1 January 1970 to 6 January 1980 and to 22 August 1999.
GpsEpochDay == 3657
RolloverEpochDay == 10825

\* The calendar date and time of GPS (week, time of week), leap years
\* counted and no leap seconds: the reference of to_date_time.
ReferenceDateTime(gps_week, gps_tow) ==
    LET c == CivilFromDays(GpsEpochDay + 7 * gps_week + gps_tow \div 86400)
        s == gps_tow % 86400
    IN  [year |-> c.year, month |-> c.month, day |-> c.day,
         hour |-> s \div 3600, minute |-> (s % 3600) \div 60, second |-> s % 60]

(***************************************************************************)
(* Rinex_Printer::to_date_time.  An int of the code is held as a number of *)
(* days d and of seconds s, 0 <= s < 86400, its value being 86400*d + s:   *)
(* every quantity the function subtracts is a whole number of days.        *)
(***************************************************************************)
secs_per_day == 86400

\* INT_MAX = 2^31 - 1 = 24855 days and 11647 seconds.
IntMaxDays == 24855
IntMaxSecs == 11647
\* 2^32 = 49710 days and 23296 seconds.
WrapDays == 49710
WrapSecs == 23296

FitsInt(v) == v.d < IntMaxDays \/ (v.d = IntMaxDays /\ v.s <= IntMaxSecs)

\* The value an overflowing int sum has in two's complement.
WrapInt(v) ==
    IF v.s >= WrapSecs THEN [d |-> v.d - WrapDays, s |-> v.s - WrapSecs]
    ELSE [d |-> v.d - WrapDays - 1, s |-> v.s - WrapSecs + secs_per_day]

is_leap_year(y) == y % 4 = 0 /\ (y % 100 # 0 \/ y % 400 = 0)

days_per_month == <<31, 28, 31, 30, 31, 30, 31, 31, 30, 31, 30, 31>>

\* The loop that finds the year: rd is remaining_secs in whole days.
RECURSIVE FindYear(_, _)
FindYear(y, rd) ==
    LET days_in_year_y == IF is_leap_year(y) THEN 366 ELSE 365
    IN  IF days_in_year_y <= rd THEN FindYear(y + 1, rd - days_in_year_y)
        ELSE [year |-> y, rd |-> rd]

\* The loop that finds the month.
RECURSIVE FindMonth(_, _, _)
FindMonth(m, rd, leap) ==
    LET days_in_month_m == days_per_month[m] + (IF leap /\ m = 2 THEN 1 ELSE 0)
    IN  IF days_in_month_m <= rd THEN FindMonth(m + 1, rd - days_in_month_m, leap)
        ELSE [month |-> m, rd |-> rd]

\* The body of to_date_time from remaining_secs = v on.
DateTimeFrom(v) ==
    LET fy == FindYear(1980, v.d)
        fm == FindMonth(1, fy.rd, is_leap_year(fy.year))
        \* remaining_secs / secs_per_day and remaining_secs % secs_per_day
        q == IF fm.rd < 0 /\ v.s > 0 THEN fm.rd + 1 ELSE fm.rd
        r == IF fm.rd < 0 /\ v.s > 0 THEN v.s - secs_per_day ELSE v.s
    IN  [year |-> fy.year, month |-> fm.month, day |-> q + 1,
         hour |-> CDiv(r, 60 * 60), minute |-> CDiv(CMod(r, 60 * 60), 60),
         second |-> CMod(CMod(r, 60 * 60), 60)]

\* The results to_date_time can leave in its out-parameters.  The sums
\* gps_week*secs_per_week + gps_tow + 5*secs_per_day are int sums: when they
\* exceed INT_MAX the behaviour is undefined, and the build either wraps the
\* sum or keeps the exact value in a wider register.
to_date_time(gps_week, gps_tow) ==
    LET exact == [d |-> 7 * gps_week + gps_tow \div secs_per_day + 5,
                  s |-> gps_tow % secs_per_day]
    IN  IF FitsInt(exact) THEN {DateTimeFrom(exact)}
        ELSE {DateTimeFrom(WrapInt(exact)), DateTimeFrom(exact)}

(***************************************************************************)
(* Rinex_Printer::compute_GPS_time and boost::posix_time::to_iso_string.   *)
(* obs_time is in milliseconds.                                            *)
(***************************************************************************)
compute_GPS_time(i_GPS_week, obs_time) ==
    LET ms_per_day == secs_per_day * 1000
        c == CivilFromDays(RolloverEpochDay + 7 * (i_GPS_week % 1024)
                           + obs_time \div ms_per_day)
        ms == obs_time % ms_per_day
    IN  [year |-> c.year, month |-> c.month, day |-> c.day,
         hour |-> ms \div 3600000, minute |-> (ms % 3600000) \div 60000,
         second |-> (ms % 60000) \div 1000, frac |-> ms % 1000]

TwoDigits(n) == IF n < 10 THEN "0" \o NatStr(n) ELSE NatStr(n)

\* YYYYMMDDTHHMMSS, followed by the fraction when there is one.
to_iso_string(p) ==
    NatStr(p.year) \o TwoDigits(p.month) \o TwoDigits(p.day) \o "T"
    \o TwoDigits(p.hour) \o TwoDigits(p.minute) \o TwoDigits(p.second)
    \o (IF p.frac = 0 THEN ""
        ELSE "." \o Zeros(3 - Len(NatStr(p.frac))) \o NatStr(p.frac) \o "000")

\* std::string(s, pos, n)
Substr(s, pos, n) == SubSeq(s, pos + 1, Min(pos + n, Len(s)))

(***************************************************************************)
(* Rinex_Printer::signalStrength.  snr is in tenths of dB-Hz.              *)
(***************************************************************************)
\* A faulty variant, min and max exchanged: C10 does not hold of it.
signalStrength_minmax_exchanged(snr) == Max(Min(snr \div 60, 1), 9)

signalStrength(snr) == Min(Max(snr \div 60, 1), 9)

(***************************************************************************)
(* The curve fit interval of log_rinex_nav (BROADCAST ORBIT - 7).          *)
(***************************************************************************)
\* std::string::compare: zero exactly when the strings are equal.
compare(a, b) == IF a = b THEN 0 ELSE 1

curve_fit_interval(satelliteBlock, d_IODC) ==
    LET c0 == 4
        inIIA == compare(satelliteBlock, "IIA") # 0
        a1 == IF inIIA /\ d_IODC > 239 /\ d_IODC < 248 THEN 8 ELSE c0
        a2 == IF inIIA /\ ((d_IODC > 247 /\ d_IODC < 256) \/ d_IODC = 496)
              THEN 14 ELSE a1
        a3 == IF inIIA /\ d_IODC > 496 /\ d_IODC < 504 THEN 26 ELSE a2
        a4 == IF inIIA /\ d_IODC > 503 /\ d_IODC < 511 THEN 50 ELSE a3
        a5 == IF inIIA /\ ((d_IODC > 751 /\ d_IODC < 757) \/ d_IODC = 511)
              THEN 74 ELSE a4
        a6 == IF inIIA /\ d_IODC = 757 THEN 98 ELSE a5
        inIIR == \/ compare(satelliteBlock, "IIR") = 0
                 \/ compare(satelliteBlock, "IIR-M") = 0
                 \/ compare(satelliteBlock, "IIF") = 0
                 \/ compare(satelliteBlock, "IIIA") = 0
        b1 == IF inIIR /\ d_IODC > 239 /\ d_IODC < 248 THEN 8 ELSE a6
        b2 == IF inIIR /\ ((d_IODC > 247 /\ d_IODC < 256) \/ d_IODC = 496)
              THEN 14 ELSE b1
        b3 == IF inIIR /\ ((d_IODC > 496 /\ d_IODC < 504)
                           \/ (d_IODC > 1020 /\ d_IODC < 1024))
              THEN 26 ELSE b2
    IN  b3

(***************************************************************************)
(* The inputs of the writer.                                               *)
(***************************************************************************)
\* A Gps_Ephemeris with every parameter zero; satelliteBlock is the entry
\* of the ephemeris' block table for its own satellite.
ZeroEphemeris ==
    [i_satellite_PRN |-> 0, i_GPS_week |-> 0, d_TOW |-> 0, satelliteBlock |-> "",
     d_A_f0 |-> 0, d_A_f1 |-> 0, d_A_f2 |-> 0, d_Crs |-> 0, d_Delta_n |-> 0,
     d_M_0 |-> 0, d_Cuc |-> 0, d_e_eccentricity |-> 0, d_Cus |-> 0,
     d_sqrt_A |-> 0, d_Toe |-> 0, d_Cic |-> 0, d_OMEGA0 |-> 0, d_Cis |-> 0,
     d_i_0 |-> 0, d_Crc |-> 0, d_OMEGA |-> 0, d_OMEGA_DOT |-> 0, d_IDOT |-> 0,
     i_code_on_L2 |-> 0, i_SV_accuracy |-> 0, i_SV_health |-> 0, d_TGD |-> 0,
     d_IODC |-> 0]

Ephemeris(prn, week, tow, block, iodc) ==
    [ZeroEphemeris EXCEPT !.i_satellite_PRN = prn, !.i_GPS_week = week,
                          !.d_TOW = tow, !.d_Toe = tow,
                          !.satelliteBlock = block, !.d_IODC = iodc]

\* A Gps_Iono and a Gps_Utc_Model.
ZeroIono ==
    [d_alpha0 |-> 0, d_alpha1 |-> 0, d_alpha2 |-> 0, d_alpha3 |-> 0,
     d_beta0 |-> 0, d_beta1 |-> 0, d_beta2 |-> 0, d_beta3 |-> 0]

UtcModel(wn_t) ==
    [d_A0 |-> 0, d_A1 |-> 0, d_t_OT |-> 503808, i_WN_T |-> wn_t,
     d_DeltaT_LS |-> 16, d_DeltaT_LSF |-> 16, i_WN_LSF |-> 158, i_DN |-> 7]

\* The system clock read by getLocalTime and rinex_sbs_header (UTC).
Clocks == {[year |-> 2012, month |-> 9, day |-> 5,
            hour |-> 8, minute |-> 5, second |-> 3]}

\* The keys of a std::map in the order its iterator visits them.
RECURSIVE KeysAscending(_)
KeysAscending(S) ==
    IF S = {} THEN <<>>
    ELSE LET k == CHOOSE a \in S : \A b \in S : a <= b
         IN  <<k>> \o KeysAscending(S \ {k})

(***************************************************************************)
(* The code tables the constructor fills (lines 66-140); the entries the   *)
(* writers look up.                                                        *)
(***************************************************************************)
satelliteSystem ==
    [k \in {"GPS", "GLONASS", "SBAS payload", "Galileo", "Compass"} |->
        CASE k = "GPS" -> "G" [] k = "GLONASS" -> "R" [] k = "SBAS payload" -> "S"
          [] k = "Galileo" -> "E" [] k = "Compass" -> "C"]

observationType ==
    [k \in {"PSEUDORANGE", "CARRIER_PHASE", "DOPPLER", "SIGNAL_STRENGTH",
            "PSEUDORANGE_CA_v2", "PSEUDORANGE_P_v2", "CARRIER_PHASE_CA_v2",
            "DOPPLER_v2", "SIGNAL_STRENGTH_v2"} |->
        CASE k \in {"PSEUDORANGE", "PSEUDORANGE_CA_v2"} -> "C"
          [] k = "PSEUDORANGE_P_v2" -> "P"
          [] k \in {"CARRIER_PHASE", "CARRIER_PHASE_CA_v2"} -> "L"
          [] k \in {"DOPPLER", "DOPPLER_v2"} -> "D"
          [] k \in {"SIGNAL_STRENGTH", "SIGNAL_STRENGTH_v2"} -> "S"]

observationCode ==
    [k \in {"GPS_L1_CA", "GPS_L1_CA_v2"} |->
        CASE k = "GPS_L1_CA" -> "1C" [] k = "GPS_L1_CA_v2" -> "1"]

(***************************************************************************)
(* Rinex_Printer::getLocalTime.                                            *)
(***************************************************************************)
months == <<"JAN", "FEB", "MAR", "APR", "MAY", "JUN",
            "JUL", "AUG", "SEP", "OCT", "NOV", "DEC">>

getLocalTime(version, now) ==
    "GNSS-SDR" \o Spaces(12) \o leftJustify("CTTC", 20)
    \o (IF version = 2
        THEN rightJustify(IntStr(now.day), 2) \o "-" \o months[now.month] \o "-"
             \o IntStr(now.year - 2000) \o " " \o TwoDigits(now.hour) \o ":"
             \o TwoDigits(now.minute) \o Spaces(5)
        ELSE "")
    \o (IF version = 3
        THEN " " \o NatStr(now.year) \o TwoDigits(now.month) \o TwoDigits(now.day)
             \o TwoDigits(now.hour) \o TwoDigits(now.minute)
             \o TwoDigits(now.second) \o " UTC "
        ELSE "")

\* The text a block guarded by if (version == v) adds.
OnlyIn(v, version, text) == IF version = v THEN text ELSE ""

(***************************************************************************)
(* Rinex_Printer::rinex_nav_header: the lines it passes to lengthCheck and *)
(* appends, in order.                                                      *)
(***************************************************************************)
rinex_nav_header(version, stringVersion, iono, utc_model, now) ==
    LET line1 ==
            Spaces(5) \o stringVersion \o Spaces(11)
            \o OnlyIn(2, version, "N: GPS NAV DATA" \o Spaces(25))
            \o OnlyIn(3, version, "N: GNSS NAV DATA" \o Spaces(4) \o "G: GPS"
                                  \o Spaces(14))
            \o "RINEX VERSION / TYPE"
        line2 == getLocalTime(version, now) \o "PGM / RUN BY / DATE" \o " "
        line3 ==
            leftJustify("GPS NAVIGATION MESSAGE FILE GENERATED BY GNSS-SDR", 60)
            \o leftJustify("COMMENT", 20)
        line4 == leftJustify("See http://gnss-sdr.org", 60)
                 \o leftJustify("COMMENT", 20)
        alpha ==
            rightJustify(doub2for(iono.d_alpha0, 10, 2), 12)
            \o rightJustify(doub2for(iono.d_alpha1, 10, 2), 12)
            \o rightJustify(doub2for(iono.d_alpha2, 10, 2), 12)
            \o rightJustify(doub2for(iono.d_alpha3, 10, 2), 12)
        beta ==
            rightJustify(doub2for(iono.d_beta0, 10, 2), 12)
            \o rightJustify(doub2for(iono.d_beta1, 10, 2), 12)
            \o rightJustify(doub2for(iono.d_beta2, 10, 2), 12)
            \o rightJustify(doub2for(iono.d_beta3, 10, 2), 12)
        lineIono1 ==
            OnlyIn(2, version, Spaces(2) \o alpha \o Spaces(10)
                               \o leftJustify("ION ALPHA", 20))
            \o OnlyIn(3, version, "GPSA" \o " " \o alpha \o Spaces(7)
                                  \o leftJustify("IONOSPHERIC CORR", 20))
        lineIono2 ==
            OnlyIn(2, version, Spaces(2) \o beta \o Spaces(10)
                               \o leftJustify("ION BETA", 20))
            \o OnlyIn(3, version, "GPSB" \o " " \o beta \o Spaces(7)
                                  \o leftJustify("IONOSPHERIC CORR", 20))
        line5 ==
            OnlyIn(2, version,
                   Spaces(3)
                   \o rightJustify(doub2for(utc_model.d_A0, 18, 2), 19)
                   \o rightJustify(doub2for(utc_model.d_A1, 18, 2), 19)
                   \o rightJustify(IntStr(utc_model.d_t_OT), 9)
                   \o rightJustify(IntStr(utc_model.i_WN_T + 1024), 9)
                   \o " " \o leftJustify("DELTA-UTC: A0,A1,T,W", 20))
            \o OnlyIn(3, version,
                   "GPUT"
                   \o rightJustify(doub2for(utc_model.d_A0, 16, 2), 18)
                   \o rightJustify(doub2for(utc_model.d_A1, 15, 2), 16)
                   \o rightJustify(IntStr(utc_model.d_t_OT), 7)
                   \o rightJustify(IntStr(utc_model.i_WN_T + 1024), 5)
                   \o Spaces(10) \o leftJustify("TIME SYSTEM CORR", 20))
        line6 ==
            rightJustify(IntStr(utc_model.d_DeltaT_LS), 6)
            \o OnlyIn(2, version, Spaces(54))
            \o OnlyIn(3, version,
                   rightJustify(IntStr(utc_model.d_DeltaT_LSF), 6)
                   \o rightJustify(IntStr(utc_model.i_WN_LSF), 6)
                   \o rightJustify(IntStr(utc_model.i_DN), 6)
                   \o Spaces(36))
            \o leftJustify("LEAP SECONDS", 20)
        lineEnd == Spaces(60) \o leftJustify("END OF HEADER", 20)
    IN  <<line1, line2, line3, line4, lineIono1, lineIono2, line5, line6, lineEnd>>

(***************************************************************************)
(* Rinex_Printer::log_rinex_nav.                                           *)
(***************************************************************************)
\* The eight lines of one ephemeris: SV / EPOCH / SV CLK and BROADCAST
\* ORBIT 1 to 7.
NavRecord(version, eph) ==
    LET timestring == to_iso_string(compute_GPS_time(eph.i_GPS_week,
                                                     eph.d_TOW * 1000))
        month == Substr(timestring, 4, 2)
        day == Substr(timestring, 6, 2)
        hour == Substr(timestring, 9, 2)
        minutes == Substr(timestring, 11, 2)
        seconds == Substr(timestring, 13, 2)
        decimal == "0"
        clk ==
            OnlyIn(2, version,
                   rightJustify(IntStr(eph.i_satellite_PRN), 2) \o " "
                   \o Substr(timestring, 2, 2) \o " " \o month \o " " \o day
                   \o " " \o hour \o " " \o minutes \o " " \o seconds \o "."
                   \o decimal \o " "
                   \o doub2for(eph.d_A_f0, 18, 2) \o " "
                   \o doub2for(eph.d_A_f1, 18, 2) \o " "
                   \o doub2for(eph.d_A_f2, 18, 2) \o " ")
            \o OnlyIn(3, version,
                   satelliteSystem["GPS"]
                   \o (IF eph.i_satellite_PRN < 10 THEN "0" ELSE "")
                   \o IntStr(eph.i_satellite_PRN)
                   \o " " \o Substr(timestring, 0, 4) \o " " \o month \o " "
                   \o day \o " " \o hour \o " " \o minutes \o " " \o seconds
                   \o " " \o doub2for(eph.d_A_f0, 18, 2)
                   \o " " \o doub2for(eph.d_A_f1, 18, 2)
                   \o " " \o doub2for(eph.d_A_f2, 18, 2))
        lead == OnlyIn(2, version, Spaces(4)) \o OnlyIn(3, version, Spaces(5))
        tail == OnlyIn(2, version, " ")
        orbit(a, b, c, d) ==
            lead \o doub2for(a, 18, 2) \o " " \o doub2for(b, 18, 2) \o " "
            \o doub2for(c, 18, 2) \o " " \o doub2for(d, 18, 2) \o tail
        d_IODE_SF2 == 0
        GPS_week_continuous_number == eph.i_GPS_week + 1024
        orbit7 ==
            lead \o doub2for(eph.d_TOW, 18, 2) \o " "
            \o doub2for(curve_fit_interval(eph.satelliteBlock, eph.d_IODC), 18, 2)
            \o " " \o Spaces(18) \o " " \o Spaces(18) \o tail
    IN  <<clk,
          orbit(d_IODE_SF2, eph.d_Crs, eph.d_Delta_n, eph.d_M_0),
          orbit(eph.d_Cuc, eph.d_e_eccentricity, eph.d_Cus, eph.d_sqrt_A),
          orbit(eph.d_Toe, eph.d_Cic, eph.d_OMEGA0, eph.d_Cis),
          orbit(eph.d_i_0, eph.d_Crc, eph.d_OMEGA, eph.d_OMEGA_DOT),
          orbit(eph.d_IDOT, eph.i_code_on_L2, GPS_week_continuous_number,
                eph.i_code_on_L2),
          orbit(eph.i_SV_accuracy, eph.i_SV_health, eph.d_TGD, eph.d_IODC),
          orbit7>>

\* The loop over the ephemeris map, in the order of its keys.
RECURSIVE NavRecords(_, _, _)
NavRecords(version, eph_map, keys) ==
    IF keys = <<>> THEN <<>>
    ELSE NavRecord(version, eph_map[Head(keys)])
         \o NavRecords(version, eph_map, Tail(keys))

\* A faulty variant, the loop left after its first ephemeris: C8 does not
\* hold of it.
log_rinex_nav_first_only(version, eph_map) ==
    IF DOMAIN eph_map = {} THEN <<>>
    ELSE NavRecord(version, eph_map[Head(KeysAscending(DOMAIN eph_map))])

log_rinex_nav(version, eph_map) ==
    NavRecords(version, eph_map, KeysAscending(DOMAIN eph_map))

(***************************************************************************)
(* Rinex_Printer::rinex_obs_header.  d_TOW_first_observation is in         *)
(* milliseconds.  The header is written in two parts: the lines before the *)
(* OBSERVER / AGENCY line, and that line and the lines after it, which     *)
(* need the value of the environment variable USER.                        *)
(***************************************************************************)
numberTypesObservations == 2

rinex_obs_header_start(version, stringVersion, now) ==
    <<Spaces(5) \o stringVersion \o Spaces(11)
        \o leftJustify("OBSERVATION DATA", 20) \o satelliteSystem["GPS"]
        \o Spaces(19) \o "RINEX VERSION / TYPE",
      OnlyIn(2, version,
             leftJustify("BLANK OR G = GPS,  R = GLONASS,  E = GALILEO,  M = MIXED", 60))
        \o OnlyIn(3, version,
             leftJustify("G = GPS  R = GLONASS  E = GALILEO  S = GEO  M = MIXED", 60))
        \o leftJustify("COMMENT", 20),
      getLocalTime(version, now) \o "PGM / RUN BY / DATE" \o " ",
      leftJustify("GPS OBSERVATION DATA FILE GENERATED BY GNSS-SDR", 60)
        \o leftJustify("COMMENT", 20),
      leftJustify("See http://gnss-sdr.org", 60) \o leftJustify("COMMENT", 20),
      leftJustify("DEFAULT MARKER NAME", 60) \o leftJustify("MARKER NAME", 20)>>

rinex_obs_header_rest(version, eph, d_TOW_first_observation, username) ==
    LET observer ==
            leftJustify(username, 20) \o leftJustify("CTTC", 40)
            \o leftJustify("OBSERVER / AGENCY", 20)
        receiver ==
            leftJustify("GNSS-SDR", 20) \o leftJustify("Software Receiver", 20)
            \o leftJustify("0.1", 20) \o leftJustify("REC # / TYPE / VERS", 20)
        antenna ==
            leftJustify("Antenna number", 20) \o leftJustify("Antenna type", 20)
            \o Spaces(20) \o leftJustify("ANT # / TYPE", 20)
        triplet ==
            rightJustify(asString(0, 0, 4), 14) \o rightJustify(asString(0, 0, 4), 14)
            \o rightJustify(asString(0, 0, 4), 14) \o Spaces(18)
        position == triplet \o leftJustify("APPROX POSITION XYZ", 20)
        delta == triplet \o leftJustify("ANTENNA: DELTA H/E/N", 20)
        wavelength ==
            rightJustify("1", 6) \o rightJustify("1", 6) \o Spaces(48)
            \o leftJustify("WAVELENGTH FACT L1/2", 20)
        sys3 ==
            satelliteSystem["GPS"] \o Spaces(2)
            \o rightJustify(IntStr(numberTypesObservations), 3) \o " "
            \o observationType["PSEUDORANGE"] \o observationCode["GPS_L1_CA"]
            \o " " \o observationType["SIGNAL_STRENGTH"]
            \o observationCode["GPS_L1_CA"]
        types3 == sys3 \o Spaces(60 - Len(sys3))
                  \o leftJustify("SYS / # / OBS TYPES", 20)
        sys2 ==
            rightJustify(IntStr(numberTypesObservations), 6)
            \o rightJustify(observationType["PSEUDORANGE_CA_v2"], 5)
            \o observationCode["GPS_L1_CA_v2"]
            \o rightJustify(observationType["CARRIER_PHASE_CA_v2"], 5)
            \o observationCode["GPS_L1_CA_v2"]
            \o rightJustify(observationType["DOPPLER_v2"], 5)
            \o observationCode["GPS_L1_CA_v2"]
            \o rightJustify(observationType["SIGNAL_STRENGTH_v2"], 5)
            \o observationCode["GPS_L1_CA_v2"]
        types2 == sys2 \o Spaces(60 - Len(sys2))
                  \o leftJustify("# / TYPES OF OBSERV", 20)
        unit == leftJustify("DBHZ", 20) \o Spaces(40)
                \o leftJustify("SIGNAL STRENGTH UNIT", 20)
        timestring == to_iso_string(compute_GPS_time(eph.i_GPS_week,
                                                     d_TOW_first_observation))
        seconds == d_TOW_first_observation % 60000
        first ==
            rightJustify(Substr(timestring, 0, 4), 6)
            \o rightJustify(Substr(timestring, 4, 2), 6)
            \o rightJustify(Substr(timestring, 6, 2), 6)
            \o rightJustify(Substr(timestring, 9, 2), 6)
            \o rightJustify(Substr(timestring, 11, 2), 6)
            \o rightJustify(asString(seconds, 3, 7), 13)
            \o rightJustify("GPS", 8) \o Spaces(9)
            \o leftJustify("TIME OF FIRST OBS", 20)
        lineEnd == Spaces(60) \o leftJustify("END OF HEADER", 20)
    IN  <<observer, receiver, antenna, position, delta>>
        \o (IF version = 2 THEN <<wavelength>> ELSE <<>>)
        \o (IF version = 3 THEN <<types3>> ELSE <<>>)
        \o (IF version = 2 THEN <<types2>> ELSE <<>>)
        \o (IF version = 3 THEN <<unit>> ELSE <<>>)
        \o <<first, lineEnd>>

(***************************************************************************)
(* Rinex_Printer::log_rinex_obs.  obs_time is in milliseconds; of a        *)
(* Gnss_Synchro the pseudorange is in whole metres and the other values    *)
(* are in thousandths.                                                     *)
(***************************************************************************)
\* GPS_TWO_PI in thousandths.
GPS_TWO_PI == 6283

Gnss_Synchro(pseudorange, phase, doppler, cn0) ==
    [Pseudorange_m |-> pseudorange, Carrier_phase_rads |-> phase,
     Carrier_Doppler_hz |-> doppler, CN0_dB_hz |-> cn0]

\* Carrier_phase_rads / GPS_TWO_PI, rounded to thousandths of a cycle.
PhaseCycles(rads) == (2000 * rads + GPS_TWO_PI) \div (2 * GPS_TWO_PI)

\* "G" and the PRN, with a leading zero below 10.
SatId(prn) ==
    satelliteSystem["GPS"] \o (IF prn < 10 THEN "0" ELSE "") \o IntStr(prn)

RECURSIVE SatIdList(_)
SatIdList(keys) ==
    IF keys = <<>> THEN "" ELSE SatId(Head(keys)) \o SatIdList(Tail(keys))

\* The epoch line of version 2 before it is padded (lines 1168-1218).
ObsEpochV2(eph, obs_time, pseudoranges) ==
    LET timestring == to_iso_string(compute_GPS_time(eph.i_GPS_week, obs_time))
        month == Substr(timestring, 4, 2)
        day == Substr(timestring, 6, 2)
        numSatellitesObserved == Cardinality(DOMAIN pseudoranges)
    IN  " " \o Substr(timestring, 2, 2) \o " "
        \o (IF Substr(month, 0, 1) = "0" THEN " " \o Substr(month, 1, 1)
            ELSE month)
        \o " "
        \o (IF Substr(day, 0, 1) = "0" THEN " " \o Substr(day, 1, 1) ELSE day)
        \o " " \o Substr(timestring, 9, 2) \o " " \o Substr(timestring, 11, 2)
        \o " " \o asString(obs_time % 60000, 3, 7) \o Spaces(2) \o "0"
        \o rightJustify(IntStr(numSatellitesObserved), 3)
        \o SatIdList(KeysAscending(DOMAIN pseudoranges))

\* The epoch line of version 3 before it is padded (lines 1261-1295).
ObsEpochV3(eph, obs_time, pseudoranges) ==
    LET timestring == to_iso_string(compute_GPS_time(eph.i_GPS_week, obs_time))
        seconds == obs_time % 60000
        numSatellitesObserved == Cardinality(DOMAIN pseudoranges)
    IN  ">" \o " " \o Substr(timestring, 0, 4) \o " " \o Substr(timestring, 4, 2)
        \o " " \o Substr(timestring, 6, 2) \o " " \o Substr(timestring, 9, 2)
        \o " " \o Substr(timestring, 11, 2) \o " "
        \o (IF seconds < 10000 THEN "0" ELSE "") \o asString(seconds, 3, 7)
        \o Spaces(2) \o "0" \o rightJustify(IntStr(numSatellitesObserved), 3)

\* if (lineObs.size() < 80) lineObs += std::string(80 - lineObs.size(), ' ')
PadObs(lineObs) ==
    IF Len(lineObs) < 80 THEN lineObs \o Spaces(80 - Len(lineObs)) ELSE lineObs

\* One observation line of version 2 (lines 1230-1255).
ObsLineV2(obs) ==
    PadObs(rightJustify(asString(obs.Pseudorange_m, 0, 3), 14) \o " "
           \o rightJustify(asString(PhaseCycles(obs.Carrier_phase_rads), 3, 3), 14)
           \o rightJustify(asString(obs.Carrier_Doppler_hz, 3, 3), 14)
           \o rightJustify(asString(obs.CN0_dB_hz, 3, 3), 14))

\* One observation line of version 3 (lines 1309-1337).
ObsLineV3(prn, obs) ==
    LET lli == 0
        ssi == signalStrength(540)
    IN  PadObs(SatId(prn)
               \o rightJustify(asString(obs.Pseudorange_m, 0, 3), 14)
               \o (IF lli = 0 THEN " " ELSE rightJustify(IntStr(lli), 1))
               \o (IF ssi = 0 THEN " " ELSE rightJustify(IntStr(ssi), 1)))

RECURSIVE ObsLines(_, _, _)
ObsLines(version, pseudoranges, keys) ==
    IF keys = <<>> THEN <<>>
    ELSE <<IF version = 2 THEN ObsLineV2(pseudoranges[Head(keys)])
           ELSE ObsLineV3(Head(keys), pseudoranges[Head(keys)])>>
         \o ObsLines(version, pseudoranges, Tail(keys))

\* The outcome of log_rinex_obs: the lines it appends, and the exception it
\* leaves by.  line += std::string(80 - line.size(), ' ') computes the count
\* in size_t: for a line of more than 80 characters it is close to 2^64 and
\* the string constructor throws std::length_error, before anything is
\* appended.
EpochOutcome(line, obsLines) ==
    IF Len(line) > 80
    THEN [lines |-> <<>>, exception |-> "std::length_error"]
    ELSE [lines |-> <<line \o Spaces(80 - Len(line))>> \o obsLines,
          exception |-> "none"]

log_rinex_obs(version, eph, obs_time, pseudoranges) ==
    IF version = 2
    THEN EpochOutcome(ObsEpochV2(eph, obs_time, pseudoranges),
                      ObsLines(2, pseudoranges, KeysAscending(DOMAIN pseudoranges)))
    ELSE IF version = 3
    THEN EpochOutcome(ObsEpochV3(eph, obs_time, pseudoranges),
                      ObsLines(3, pseudoranges, KeysAscending(DOMAIN pseudoranges)))
    ELSE [lines |-> <<>>, exception |-> "none"]

(***************************************************************************)
(* Rinex_Printer::rinex_sbs_header and Rinex_Printer::log_rinex_sbs.       *)
(***************************************************************************)
rinex_sbs_header(now) ==
    LET time_str ==
            TwoDigits(now.day) \o "-" \o TwoDigits(now.month) \o "-"
            \o IntStr(now.year - 2000) \o " " \o TwoDigits(now.hour)
            \o TwoDigits(now.minute)
    IN  <<Spaces(5) \o "2.10" \o Spaces(11) \o leftJustify("B SBAS DATA", 20)
            \o Spaces(20) \o "RINEX VERSION / TYPE",
          leftJustify("GNSS-SDR", 20) \o leftJustify("CTTC", 20)
            \o leftJustify(time_str, 20) \o leftJustify("PGM / RUN BY / DATE", 20),
          Spaces(60) \o leftJustify("REC INDEX/TYPE/VERS", 20),
          leftJustify("BROADCAST DATA FILE FOR GEO SV, GENERATED BY GNSS-SDR", 60)
            \o leftJustify("COMMENT", 20),
          leftJustify("See http://gnss-sdr.org", 60) \o leftJustify("COMMENT", 20),
          Spaces(60) \o leftJustify("END OF HEADER", 20)>>

\* A Sbas_Raw_Msg: gps_sec is in hundredths of a second, msg is the payload.
Sbas_Raw_Msg(prn, valid, week, sec, type, msg) ==
    [prn |-> prn, rx_time_valid |-> valid, gps_week |-> week, gps_sec |-> sec,
     msg_type |-> type, msg |-> msg]

HexDigit(d) == SubSeq("0123456789abcdef", d + 1, d + 1)

\* std::hex << std::setfill('0') << std::setw(2) << int(byte) << " "
RECURSIVE HexBytes(_, _, _)
HexBytes(msg, i, last) ==
    IF i > last \/ i > Len(msg) THEN ""
    ELSE HexDigit(msg[i] \div 16) \o HexDigit(msg[i] % 16) \o " "
         \o HexBytes(msg, i + 1, last)

\* The three lines with a blank run two columns short of a timestamp.
SbsLines_short_blank(sbs_message, dt, sub_sec) ==
    LET stamp ==
            IF sbs_message.rx_time_valid
            THEN asFixWidthString(dt.year, 2, "0") \o " "
                 \o asFixWidthString(dt.month, 2, "0") \o " "
                 \o asFixWidthString(dt.day, 2, "0") \o " "
                 \o asFixWidthString(dt.hour, 2, "0") \o " "
                 \o asFixWidthString(dt.minute, 2, "0") \o " "
                 \o rightJustify(asString(10 * dt.second + sub_sec, 1, 1), 4)
            ELSE Spaces(17)
        line1 ==
            IntStr(sbs_message.prn) \o " " \o stamp \o "  " \o "L1" \o "   "
            \o asFixWidthString(Len(sbs_message.msg), 3, " ") \o "   " \o "  0"
            \o "   " \o "SBA" \o Spaces(35)
        line2 ==
            " " \o (IF sbs_message.msg_type < 10 THEN " " ELSE "")
            \o IntStr(sbs_message.msg_type) \o Spaces(4)
            \o HexBytes(sbs_message.msg, 1, 18) \o Spaces(19)
        line3 == Spaces(7) \o HexBytes(sbs_message.msg, 19, 36) \o Spaces(31)
    IN  <<line1, line2, line3>>

\* The three lines of one message; dt is what to_date_time has returned.
SbsLines(sbs_message, dt, sub_sec) ==
    LET stamp ==
            IF sbs_message.rx_time_valid
            THEN asFixWidthString(dt.year, 2, "0") \o " "
                 \o asFixWidthString(dt.month, 2, "0") \o " "
                 \o asFixWidthString(dt.day, 2, "0") \o " "
                 \o asFixWidthString(dt.hour, 2, "0") \o " "
                 \o asFixWidthString(dt.minute, 2, "0") \o " "
                 \o rightJustify(asString(10 * dt.second + sub_sec, 1, 1), 4)
            ELSE Spaces(19)
        line1 ==
            IntStr(sbs_message.prn) \o " " \o stamp \o "  " \o "L1" \o "   "
            \o asFixWidthString(Len(sbs_message.msg), 3, " ") \o "   " \o "  0"
            \o "   " \o "SBA" \o Spaces(35)
        line2 ==
            " " \o (IF sbs_message.msg_type < 10 THEN " " ELSE "")
            \o IntStr(sbs_message.msg_type) \o Spaces(4)
            \o HexBytes(sbs_message.msg, 1, 18) \o Spaces(19)
        line3 == Spaces(7) \o HexBytes(sbs_message.msg, 19, 36) \o Spaces(31)
    IN  <<line1, line2, line3>>

\* log_rinex_sbs with the time split into seconds and sub-second part first
\* and the sub-second part rounded to one decimal afterwards.
log_rinex_sbs_split_first(sbs_message) ==
    LET gps_tow == sbs_message.gps_sec \div 100
        sub_sec == ((sbs_message.gps_sec % 100) + 5) \div 10
    IN  IF sbs_message.rx_time_valid
        THEN {SbsLines(sbs_message, dt, sub_sec) :
                  dt \in to_date_time(sbs_message.gps_week, gps_tow)}
        ELSE {SbsLines(sbs_message, ZeroEphemeris, 0)}

\* The outcomes of log_rinex_sbs, one for each result of to_date_time.
\* gps_sec is in hundredths of a second, sub_sec in tenths.
log_rinex_sbs(sbs_message) ==
    LET gps_sec_one_digit_precicion == (sbs_message.gps_sec + 5) \div 10
        gps_tow == gps_sec_one_digit_precicion \div 10
        sub_sec == gps_sec_one_digit_precicion % 10
    IN  IF sbs_message.rx_time_valid
        THEN {SbsLines(sbs_message, dt, sub_sec) :
                  dt \in to_date_time(sbs_message.gps_week, gps_tow)}
        ELSE {SbsLines(sbs_message, ZeroEphemeris, 0)}

(***************************************************************************)
(* The state of the writer and of its environment.                         *)
(***************************************************************************)
VARIABLES
    FLAGS_RINEX_version,  \* the command-line flag read by the constructor
    fs0,                  \* the three files before construction
    phase,                \* "start", "alive" (constructed) or "destroyed"
    version,              \* Rinex_Printer::version
    stringVersion,        \* Rinex_Printer::stringVersion
    isOpen,               \* whether navFile, obsFile, sbsFile are open
    disk,                 \* the three files: whether each exists, its lines
    out,                  \* the lines appended through each stream
    exception,            \* the exception or signal a call has ended with
    diagnostics,          \* the LOG(ERROR) messages written so far
    ncalls,               \* header and record calls made
    last,                 \* the last call: operation, stream, inputs, lines
    fn,                   \* a pure function's inputs and result
    call,                 \* on each stream, the call in progress and its line
    alone,                \* each stream's calls so far, rendered one by one
    tables                \* satelliteSystem, observationCode, observationType

vars == <<FLAGS_RINEX_version, fs0, phase, version, stringVersion, isOpen,
          disk, out, exception, diagnostics, ncalls, last, fn, call, alone,
          tables>>

Streams == {"nav", "obs", "sbs"}

NoFile == [exists |-> FALSE, lines |-> <<>>]
OldFile == [exists |-> TRUE, lines |-> <<leftJustify("LINE OF AN EARLIER RUN", 80)>>]

\* The files the constructor finds: none, or one left by an earlier run, or
\* one that cannot be opened for writing.
FileSystems ==
    {[s \in Streams |-> "absent"]}
    \cup {[s \in Streams |-> IF s = t THEN "old" ELSE "absent"] : t \in Streams}
    \cup {[s \in Streams |-> IF s = t THEN "locked" ELSE "absent"] : t \in Streams}

Flags == {"2.11", "2.10", "3.01", "3.02"}

\* The values an int that was never assigned can hold.
UninitializedInts == {0, 2, 3}

Idle == [name |-> "none"]

\* No call in progress on a stream.
Returned == [op |-> "none"]

TableNames == {"satelliteSystem", "observationCode", "observationType"}

\* The three std::map members as the constructor leaves them.
ConstructedTables ==
    [t \in TableNames |->
        CASE t = "satelliteSystem" -> satelliteSystem
          [] t = "observationCode" -> observationCode
          [] t = "observationType" -> observationType]

\* std::map::operator[] for each key of keys: a key that is missing is
\* inserted with an empty string.
Subscripted(map, keys) ==
    [k \in (DOMAIN map) \cup keys |-> IF k \in DOMAIN map THEN map[k] ELSE ""]

NoKeys == [t \in TableNames |-> {}]

\* The keys with one of them misspelt.
LookedUp_misspelt(op, v, entered) ==
    CASE op = "log_rinex_nav" /\ v = 3 /\ entered ->
            [NoKeys EXCEPT !["satelliteSystem"] = {"GPS"}]
      [] op = "rinex_obs_header" ->
            [satelliteSystem |-> {"GPS"},
             observationType |->
                IF ~entered THEN {}
                ELSE IF v = 3 THEN {"PSEUDORANGE", "SIGNAL_STRENGTH"}
                ELSE IF v = 2 THEN {"PSEUDORANGE_CA_v2", "CARRIER_PHASE_CA_v2",
                                    "DOPPLER_v2", "SIGNAL_STRENGHT_v2"}
                ELSE {},
             observationCode |->
                IF ~entered THEN {}
                ELSE IF v = 3 THEN {"GPS_L1_CA"}
                ELSE IF v = 2 THEN {"GPS_L1_CA_v2"}
                ELSE {}]
      [] op = "log_rinex_obs" /\ v \in {2, 3} /\ entered ->
            [NoKeys EXCEPT !["satelliteSystem"] = {"GPS"}]
      [] OTHER -> NoKeys

\* The keys operation op subscripts the tables with in version v; entered
\* tells whether its loop over satellites has an element and, for
\* rinex_obs_header, whether it gets past the OBSERVER / AGENCY line.
LookedUp(op, v, entered) ==
    CASE op = "log_rinex_nav" /\ v = 3 /\ entered ->
            [NoKeys EXCEPT !["satelliteSystem"] = {"GPS"}]
      [] op = "rinex_obs_header" ->
            [satelliteSystem |-> {"GPS"},
             observationType |->
                IF ~entered THEN {}
                ELSE IF v = 3 THEN {"PSEUDORANGE", "SIGNAL_STRENGTH"}
                ELSE IF v = 2 THEN {"PSEUDORANGE_CA_v2", "CARRIER_PHASE_CA_v2",
                                    "DOPPLER_v2", "SIGNAL_STRENGTH_v2"}
                ELSE {},
             observationCode |->
                IF ~entered THEN {}
                ELSE IF v = 3 THEN {"GPS_L1_CA"}
                ELSE IF v = 2 THEN {"GPS_L1_CA_v2"}
                ELSE {}]
      [] op = "log_rinex_obs" /\ v \in {2, 3} /\ entered ->
            [NoKeys EXCEPT !["satelliteSystem"] = {"GPS"}]
      [] OTHER -> NoKeys

\* The tables after a call of op.
AfterLookups(op, entered) ==
    [t \in TableNames |-> Subscripted(tables[t], LookedUp(op, version, entered)[t])]

\* Whether a call with these inputs enters its loop, or gets past the
\* OBSERVER / AGENCY line.
Enters(op, args) ==
    CASE op = "log_rinex_nav" -> DOMAIN args # {}
      [] op = "log_rinex_obs" -> DOMAIN args.pseudoranges # {}
      [] op = "rinex_obs_header" -> args # <<>>
      [] OTHER -> TRUE

WriterInit ==
    /\ FLAGS_RINEX_version \in Flags
    /\ fs0 \in FileSystems
    /\ phase = "start"
    /\ version = 0
    /\ stringVersion = ""
    /\ isOpen = [s \in Streams |-> FALSE]
    /\ disk = [s \in Streams |-> IF fs0[s] = "old" THEN OldFile ELSE NoFile]
    /\ out = [s \in Streams |-> <<>>]
    /\ exception = "none"
    /\ diagnostics = {}
    /\ ncalls = 0
    /\ last = [op |-> "none"]
    /\ call = [s \in Streams |-> Returned]
    /\ alone = [s \in Streams |-> <<>>]
    /\ tables = [t \in TableNames |-> <<>>]

Init == WriterInit /\ fn = Idle

(***************************************************************************)
(* Rinex_Printer::Rinex_Printer.                                           *)
(***************************************************************************)
\* std::ofstream::open(name, out | app): the file is created when it is
\* missing; the open fails on a file that cannot be written.
Opens(s) == fs0[s] # "locked"

\* The constructor with the flag's own text kept as the version string.
Construct_flag_text_kept ==
    /\ phase = "start"
    /\ isOpen' = [s \in Streams |-> Opens(s)]
    /\ disk' = [s \in Streams |->
                  IF Opens(s) /\ ~disk[s].exists
                  THEN [exists |-> TRUE, lines |-> <<>>] ELSE disk[s]]
    /\ IF compare(FLAGS_RINEX_version, "3.01") = 0
       THEN version' = 3 /\ stringVersion' = "3.01" /\ UNCHANGED diagnostics
       ELSE IF compare(FLAGS_RINEX_version, "2.11") = 0
       THEN version' = 2 /\ stringVersion' = "2.11" /\ UNCHANGED diagnostics
       ELSE IF compare(FLAGS_RINEX_version, "2.10") = 0
       THEN version' = 2 /\ stringVersion' = "2.10" /\ UNCHANGED diagnostics
       ELSE /\ version' \in UninitializedInts
            /\ stringVersion' = ""
            /\ diagnostics' = diagnostics \cup {"Unknown RINEX version"}
    /\ phase' = "alive"
    /\ last' = [op |-> "Rinex_Printer"]
    /\ tables' = ConstructedTables
    /\ UNCHANGED <<FLAGS_RINEX_version, fs0, out, exception, ncalls, fn, call,
                   alone>>

Construct ==
    /\ phase = "start"
    /\ isOpen' = [s \in Streams |-> Opens(s)]
    /\ disk' = [s \in Streams |->
                  IF Opens(s) /\ ~disk[s].exists
                  THEN [exists |-> TRUE, lines |-> <<>>] ELSE disk[s]]
    /\ IF compare(FLAGS_RINEX_version, "3.01") = 0
       THEN version' = 3 /\ stringVersion' = "3.01" /\ UNCHANGED diagnostics
       ELSE IF compare(FLAGS_RINEX_version, "2.11") = 0
       THEN version' = 2 /\ stringVersion' = "2.10" /\ UNCHANGED diagnostics
       ELSE IF compare(FLAGS_RINEX_version, "2.10") = 0
       THEN version' = 2 /\ stringVersion' = "2.10" /\ UNCHANGED diagnostics
       ELSE /\ version' \in UninitializedInts
            /\ stringVersion' = ""
            /\ diagnostics' = diagnostics \cup {"Unknown RINEX version"}
    /\ phase' = "alive"
    /\ last' = [op |-> "Rinex_Printer"]
    /\ tables' = ConstructedTables
    /\ UNCHANGED <<FLAGS_RINEX_version, fs0, out, exception, ncalls, fn, call,
                   alone>>

(***************************************************************************)
(* Rinex_Printer::~Rinex_Printer.                                          *)
(***************************************************************************)
RECURSIVE Bytes(_)
Bytes(lines) == IF lines = <<>> THEN 0 ELSE Len(Head(lines)) + 1 + Bytes(Tail(lines))

\* std::ofstream::tellp: -1 on a stream that failed to open; a stream opened
\* for appending is at 0 until its first write and at the end of the file
\* after it.
tellp(s) ==
    IF ~isOpen[s] THEN -1
    ELSE IF out[s] = <<>> THEN 0 ELSE Bytes(disk[s].lines)

\* The stream whose position decides the removal of each file.
PositionFor(s) == IF s = "nav" THEN tellp("nav") ELSE tellp("obs")

Destroy ==
    /\ phase = "alive"
    /\ disk' = [s \in Streams |-> IF PositionFor(s) = 0 THEN NoFile ELSE disk[s]]
    /\ isOpen' = [s \in Streams |-> FALSE]
    /\ phase' = "destroyed"
    /\ last' = [op |-> "~Rinex_Printer"]
    /\ UNCHANGED <<FLAGS_RINEX_version, fs0, version, stringVersion, out,
                   exception, diagnostics, ncalls, fn, call, alone, tables>>

(***************************************************************************)
(* The header and record calls.                                            *)
(***************************************************************************)
\* Rinex_Printer::lengthCheck
lengthCheck(line) == IF Len(line) # 80 THEN {"Bad defined RINEX line"} ELSE {}

\* The lines of one call as they reach the stream: text, the operation that
\* wrote it, and whether it was passed to lengthCheck before.
Records(texts, op, unchecked) ==
    [i \in 1..Len(texts) |->
        [text |-> texts[i], op |-> op, checked |-> i \notin unchecked]]

Texts(recs) == [i \in 1..Len(recs) |-> recs[i].text]

RECURSIVE Checks(_)
Checks(recs) ==
    IF recs = <<>> THEN {}
    ELSE (IF Head(recs).checked THEN lengthCheck(Head(recs).text) ELSE {})
         \cup Checks(Tail(recs))

\* out << line << std::endl, for each line of a call.  A stream that failed
\* to open drops what is written to it.
WriteLines(s, recs) ==
    /\ diagnostics' = diagnostics \cup Checks(recs)
    /\ IF isOpen[s]
       THEN /\ out' = [out EXCEPT ![s] = @ \o recs]
            /\ disk' = [disk EXCEPT ![s].lines = @ \o Texts(recs)]
       ELSE UNCHANGED <<out, disk>>

CanCall == phase = "alive" /\ exception = "none" /\ ncalls < MaxCalls

Called(op, s, args, n, e) ==
    /\ ncalls' = ncalls + 1
    /\ exception' = e
    /\ last' = [op |-> op, stream |-> s, args |-> args,
                first |-> Len(out[s]) + 1, count |-> n]
    /\ tables' = AfterLookups(op, Enters(op, args))
    /\ UNCHANGED <<FLAGS_RINEX_version, fs0, phase, version, stringVersion,
                   isOpen, fn, call, alone>>

NavHeader(utc_model) ==
    /\ CanCall
    /\ \E now \in Clocks :
          LET lines == rinex_nav_header(version, stringVersion, ZeroIono,
                                        utc_model, now)
          IN  /\ WriteLines("nav", Records(lines, "rinex_nav_header", {}))
              /\ Called("rinex_nav_header", "nav", utc_model, Len(lines), "none")

LogNav(eph_map) ==
    /\ CanCall
    /\ LET lines == log_rinex_nav(version, eph_map)
       IN  /\ WriteLines("nav", Records(lines, "log_rinex_nav", {}))
           /\ Called("log_rinex_nav", "nav", eph_map, Len(lines), "none")

\* getenv("USER") is <<>> when the variable is not set and <<name>> when it
\* is.  std::string username = getenv("USER") on a null pointer is undefined:
\* the library throws std::logic_error or the process takes SIGSEGV.
ObsHeader(eph, d_TOW_first_observation, USER) ==
    /\ CanCall
    /\ \E now \in Clocks :
          LET start == rinex_obs_header_start(version, stringVersion, now)
          IN  IF USER = <<>>
              THEN /\ WriteLines("obs", Records(start, "rinex_obs_header", {}))
                   /\ \E e \in {"std::logic_error", "SIGSEGV"} :
                         Called("rinex_obs_header", "obs", USER, Len(start), e)
              ELSE LET lines == start \o rinex_obs_header_rest(
                                   version, eph, d_TOW_first_observation, USER[1])
                   IN  /\ WriteLines("obs", Records(lines, "rinex_obs_header", {}))
                       /\ Called("rinex_obs_header", "obs", USER, Len(lines), "none")

\* The observation lines of log_rinex_obs are written without lengthCheck.
LogObsOutcome(r, args) ==
    /\ WriteLines("obs", Records(r.lines, "log_rinex_obs", 2..Len(r.lines)))
    /\ Called("log_rinex_obs", "obs", args, Len(r.lines), r.exception)

LogObs(eph, obs_time, pseudoranges) ==
    /\ CanCall
    /\ LogObsOutcome(log_rinex_obs(version, eph, obs_time, pseudoranges),
                     [obs_time |-> obs_time, pseudoranges |-> pseudoranges])

SbsHeader ==
    /\ CanCall
    /\ \E now \in Clocks :
          LET lines == rinex_sbs_header(now)
          IN  /\ WriteLines("sbs", Records(lines, "rinex_sbs_header", {}))
              /\ Called("rinex_sbs_header", "sbs", <<>>, Len(lines), "none")

LogSbs(sbs_message) ==
    /\ CanCall
    /\ \E lines \in log_rinex_sbs(sbs_message) :
          /\ WriteLines("sbs", Records(lines, "log_rinex_sbs", {}))
          /\ Called("log_rinex_sbs", "sbs", sbs_message, Len(lines), "none")

(***************************************************************************)
(* The inputs drawn.                                                       *)
(***************************************************************************)
UtcModels == {UtcModel(166), UtcModel(1190)}

EphChoices ==
    {[week |-> 100, tow |-> 0, block |-> "IIA", iodc |-> 496],
     [week |-> 1124, tow |-> 518400, block |-> "IIA", iodc |-> 757],
     [week |-> 100, tow |-> 86400, block |-> "IIR", iodc |-> 250],
     [week |-> 1700, tow |-> 0, block |-> "IIF", iodc |-> 100],
     [week |-> 100, tow |-> 0, block |-> "IIR", iodc |-> 757]}

NavPrnSets == {{}, {5}, {7, 12}}

NavMaps ==
    {[p \in S |-> Ephemeris(p, c.week, c.tow, c.block, c.iodc)] :
        S \in NavPrnSets, c \in EphChoices}

ObsEphemeris == Ephemeris(1, 1700, 0, "IIR", 100)

\* The samples of satellite p.
Sample(p) == Gnss_Synchro(20000000 + 1000 * p, GPS_TWO_PI * p, 250 * p - 4000000,
                          30000 + 1000 * p)

ObsEpochs ==
    {[obs_time |-> t, pseudoranges |-> [p \in S |-> Sample(p)]] :
        t \in {100000}, S \in {{}, {3, 12}, {5, 9, 25}, 1..(MaxSats - 2),
                               1..(MaxSats - 1), 1..MaxSats}}
    \cup {[obs_time |-> 5500, pseudoranges |-> [p \in {3, 12} |-> Sample(p)]]}

UserNames == {<<>>, <<"root">>, <<"a_user_name_longer_than_20">>}

Payload(n) == [i \in 1..n |-> (37 * i) % 256]

SbasMessages ==
    {Sbas_Raw_Msg(120, TRUE, 1700, 5996, 2, Payload(32)),
     Sbas_Raw_Msg(124, FALSE, 0, 0, 12, Payload(36)),
     Sbas_Raw_Msg(120, TRUE, 3600, 100000, 63, Payload(8))}

(***************************************************************************)
(* The writer driven on its three streams.                                 *)
(***************************************************************************)
Next ==
    \/ Construct
    \/ \E u \in UtcModels : NavHeader(u)
    \/ \E m \in NavMaps : LogNav(m)
    \/ \E user \in UserNames : ObsHeader(ObsEphemeris, 100000, user)
    \/ \E o \in ObsEpochs : LogObs(ObsEphemeris, o.obs_time, o.pseudoranges)
    \/ SbsHeader
    \/ \E b \in SbasMessages : LogSbs(b)
    \/ Destroy

Spec == Init /\ [][Next]_vars

(***************************************************************************)
(* The writer driven on its navigation stream alone.                       *)
(***************************************************************************)
NextNav ==
    \/ Construct
    \/ \E u \in UtcModels : NavHeader(u)
    \/ \E m \in NavMaps : LogNav(m)
    \/ Destroy

SpecNav == Init /\ [][NextNav]_vars

(***************************************************************************)
(* The writer driven by one caller with one input for each operation.      *)
(***************************************************************************)
OneNavMap == [p \in {5} |-> Ephemeris(p, 100, 0, "IIA", 496)]

OneEpoch == [obs_time |-> 100000, pseudoranges |-> [p \in {3, 12} |-> Sample(p)]]

OneSbasMessage == Sbas_Raw_Msg(120, TRUE, 1700, 5996, 2, Payload(32))

NextCalls ==
    \/ Construct
    \/ NavHeader(UtcModel(166))
    \/ LogNav(OneNavMap)
    \/ ObsHeader(ObsEphemeris, 100000, <<"root">>)
    \/ LogObs(ObsEphemeris, OneEpoch.obs_time, OneEpoch.pseudoranges)
    \/ SbsHeader
    \/ LogSbs(OneSbasMessage)
    \/ Destroy

SpecCalls == Init /\ [][NextCalls]_vars

(***************************************************************************)
(* The writer driven by one caller for each stream.  A call builds one     *)
(* line in its own std::string, passes it to lengthCheck and writes it to  *)
(* the stream it was given, line after line; between two lines the calls   *)
(* of the other callers proceed.                                           *)
(***************************************************************************)
\* The calls the three callers make in all.
MaxEntered == 3

\* The lines call c writes, from the members as they are when it is asked.
Rendered(c) ==
    CASE c.op = "rinex_nav_header" ->
            Records(rinex_nav_header(version, stringVersion, ZeroIono,
                                     c.args.utc_model, c.args.now), c.op, {})
      [] c.op = "log_rinex_nav" ->
            Records(log_rinex_nav(version, c.args), c.op, {})
      [] c.op = "rinex_obs_header" ->
            Records(rinex_obs_header_start(version, stringVersion, c.args.now)
                    \o rinex_obs_header_rest(version, c.args.eph,
                                             c.args.d_TOW_first_observation,
                                             c.args.USER), c.op, {})
      [] c.op = "log_rinex_obs" ->
            Records(log_rinex_obs(version, c.args.eph, c.args.obs_time,
                                  c.args.pseudoranges).lines, c.op,
                    2..(1 + Cardinality(DOMAIN c.args.pseudoranges)))
      [] c.op = "rinex_sbs_header" ->
            Records(rinex_sbs_header(c.args.now), c.op, {})
      [] c.op = "log_rinex_sbs" ->
            Records(CHOOSE lines \in log_rinex_sbs(c.args) : TRUE, c.op, {})

\* A caller enters an operation on its stream; the stream's earlier call has
\* returned.
Enter(s, op, args) ==
    /\ phase = "alive" /\ exception = "none" /\ ncalls < MaxEntered
    /\ call[s] = Returned
    /\ call' = [call EXCEPT ![s] = [op |-> op, args |-> args, written |-> 0]]
    /\ alone' = [alone EXCEPT ![s] = @ \o Rendered([op |-> op, args |-> args])]
    /\ ncalls' = ncalls + 1
    /\ tables' = AfterLookups(op, TRUE)
    /\ UNCHANGED <<FLAGS_RINEX_version, fs0, phase, version, stringVersion,
                   isOpen, disk, out, exception, diagnostics, last, fn>>

EnterNavHeader ==
    \E now \in Clocks :
        Enter("nav", "rinex_nav_header", [utc_model |-> UtcModel(166), now |-> now])

EnterLogNav == Enter("nav", "log_rinex_nav", OneNavMap)

EnterObsHeader ==
    \E now \in Clocks :
        Enter("obs", "rinex_obs_header",
              [eph |-> ObsEphemeris, d_TOW_first_observation |-> 100000,
               USER |-> "root", now |-> now])

EnterLogObs ==
    Enter("obs", "log_rinex_obs",
          [eph |-> ObsEphemeris, obs_time |-> OneEpoch.obs_time,
           pseudoranges |-> OneEpoch.pseudoranges])

EnterSbsHeader ==
    \E now \in Clocks : Enter("sbs", "rinex_sbs_header", [now |-> now])

EnterLogSbs == Enter("sbs", "log_rinex_sbs", OneSbasMessage)

\* Line k of the lines of the call on stream s reaches stream o; the call
\* goes on, or returns after its last line.
WriteLine(o, s, lines, k) ==
    /\ WriteLines(o, <<lines[k]>>)
    /\ call' = [call EXCEPT ![s] = IF k = Len(lines) THEN Returned
                                   ELSE [@ EXCEPT !.written = k]]

\* Every call writes to the stream of the first caller.
WriteNext_one_stream(s) ==
    /\ phase = "alive"
    /\ call[s] # Returned
    /\ WriteLine("nav", s, Rendered(call[s]), call[s].written + 1)
    /\ UNCHANGED <<FLAGS_RINEX_version, fs0, phase, version, stringVersion,
                   isOpen, exception, ncalls, last, fn, alone, tables>>

\* lengthCheck(line); out << line << std::endl, for the next line of the call
\* on stream s.
WriteNext(s) ==
    /\ phase = "alive"
    /\ call[s] # Returned
    /\ WriteLine(s, s, Rendered(call[s]), call[s].written + 1)
    /\ UNCHANGED <<FLAGS_RINEX_version, fs0, phase, version, stringVersion,
                   isOpen, exception, ncalls, last, fn, alone, tables>>

\* The writer is destroyed when no call is in progress.
DestroyIdle == (\A s \in Streams : call[s] = Returned) /\ Destroy

InitStreams ==
    /\ Init
    /\ FLAGS_RINEX_version \in {"2.11", "3.01"}
    /\ fs0 = [s \in Streams |-> "absent"]

NextStreams ==
    \/ Construct
    \/ EnterNavHeader
    \/ EnterLogNav
    \/ EnterObsHeader
    \/ EnterLogObs
    \/ EnterSbsHeader
    \/ EnterLogSbs
    \/ \E s \in Streams : WriteNext(s)
    \/ DestroyIdle

SpecStreams == InitStreams /\ [][NextStreams]_vars

(***************************************************************************)
(* The writer driven on its SBAS stream alone.                             *)
(***************************************************************************)
\* Reception times in hundredths of a second: below and above the rounding
\* step, and just before the end of a minute, an hour, a day and the week.
SbsTimes == {0, 5, 5994, 5995, 5996, 359996, 8639996, 60479996}

SbsTimedMessages ==
    {Sbas_Raw_Msg(120, TRUE, 1700, t, 2, Payload(32)) : t \in SbsTimes}
    \cup {Sbas_Raw_Msg(120, FALSE, 1700, 5996, 2, Payload(32))}
    \cup SbasMessages

NextSbs ==
    \/ Construct
    \/ SbsHeader
    \/ \E b \in SbsTimedMessages : LogSbs(b)
    \/ Destroy

SpecSbs == Init /\ [][NextSbs]_vars

(***************************************************************************)
(* to_date_time applied to the instants from 6 January 1980 on.            *)
(***************************************************************************)
WriterIdle ==
    /\ WriterInit
    /\ FLAGS_RINEX_version = "2.11"
    /\ fs0 = [s \in Streams |-> "absent"]

writer == <<FLAGS_RINEX_version, fs0, phase, version, stringVersion, isOpen,
            disk, out, exception, diagnostics, ncalls, last, call, alone,
            tables>>

DaySeconds == {0, 86399}

ZeroDate == [year |-> 0, month |-> 0, day |-> 0, hour |-> 0, minute |-> 0,
             second |-> 0]

InitTime ==
    /\ WriterIdle
    /\ fn \in {[name |-> "to_date_time", gps_week |-> n \div 7,
                gps_tow |-> (n % 7) * secs_per_day + t, done |-> FALSE,
                result |-> ZeroDate] : n \in 0..MaxDay, t \in DaySeconds}

ToDateTime ==
    /\ fn.name = "to_date_time" /\ ~fn.done
    /\ \E r \in to_date_time(fn.gps_week, fn.gps_tow) :
          fn' = [fn EXCEPT !.done = TRUE, !.result = r]
    /\ UNCHANGED writer

NextTime == ToDateTime

SpecTime == InitTime /\ [][NextTime]_vars

(***************************************************************************)
(* signalStrength applied to carrier-to-noise values.                      *)
(***************************************************************************)
InitSignal ==
    /\ WriterIdle
    /\ fn \in {[name |-> "signalStrength", snr |-> v, done |-> FALSE,
                result |-> 0] : v \in (0 - MaxSnr)..MaxSnr}

SignalStrength ==
    /\ fn.name = "signalStrength" /\ ~fn.done
    /\ fn' = [fn EXCEPT !.done = TRUE, !.result = signalStrength(fn.snr)]
    /\ UNCHANGED writer

NextSignal == SignalStrength

SpecSignal == InitSignal /\ [][NextSignal]_vars

(***************************************************************************)
(* The claims.                                                             *)
(***************************************************************************)
SupportedVersions == {"2.10", "2.11", "3.01"}

\* The number of keys of S below p: the place of p in the order of a map.
Rank(S, p) == Cardinality({q \in S : q < p})

IsDigits(t) == \A i \in 1..Len(t) : \E d \in 0..9 : SubSeq(t, i, i) = Digit(d)

\* The line at place k (from 0) of the last call, on the stream it wrote to.
LastLine(k) == out[last.stream][last.first + k].text

\* C1: in versions 2 and 3, every line that rinex_nav_header, log_rinex_nav,
\* rinex_obs_header and log_rinex_obs append to their stream is exactly 80
\* characters long, whatever the inputs.
C1_EveryLineHas80Columns ==
    FLAGS_RINEX_version \in SupportedVersions =>
        \A s \in {"nav", "obs"} : \A i \in 1..Len(out[s]) :
            Len(out[s][i].text) = 80

\* C2: for each stream by itself, once the writer is destroyed the file of a
\* stream nothing was written to does not exist, and the file of a stream
\* something was written to exists and is not empty.
C2_FileExistsIffWritten ==
    phase = "destroyed" =>
        \A s \in Streams :
            IF out[s] = <<>> THEN ~disk[s].exists
            ELSE disk[s].exists /\ disk[s].lines # <<>>

\* C3: for every GPS week and time of week whose instant lies between
\* 6 January 1980 and the end of 2099, to_date_time returns the year, month,
\* day, hour, minute and second of the reference calendar computation.
C3_MatchesReferenceCalendar ==
    (fn.name = "to_date_time" /\ fn.done
     /\ ReferenceDateTime(fn.gps_week, fn.gps_tow).year <= 2099) =>
        fn.result = ReferenceDateTime(fn.gps_week, fn.gps_tow)

\* The IODC values of the ranges of the two decision tables.
DocumentedIODC == (240..255) \cup (496..511) \cup (752..757) \cup (1021..1023)

\* The curve fit interval field of broadcast orbit line 7.
CurveFitField(line) ==
    IF version = 2 THEN SubSeq(line, 24, 41) ELSE SubSeq(line, 25, 42)

\* C4: the curve fit interval log_rinex_nav writes on broadcast orbit line 7
\* is 14 hours for block "IIA" and IODC 496, 98 hours for block "IIA" and
\* IODC 757, and the default of 4 hours for an IODC outside every range.
C4_CurveFitInterval ==
    (last.op = "log_rinex_nav" /\ isOpen["nav"] /\ version \in {2, 3}) =>
        \A p \in DOMAIN last.args :
            LET eph == last.args[p]
                fit == CurveFitField(LastLine(8 * Rank(DOMAIN last.args, p) + 7))
            IN  /\ (eph.satelliteBlock = "IIA" /\ eph.d_IODC = 496)
                       => fit = doub2for(14, 18, 2)
                /\ (eph.satelliteBlock = "IIA" /\ eph.d_IODC = 757)
                       => fit = doub2for(98, 18, 2)
                /\ eph.d_IODC \notin DocumentedIODC => fit = doub2for(4, 18, 2)

\* C5: construction with a version other than "2.10", "2.11" and "3.01" is
\* rejected: no writer comes to life and no file is created or left behind.
C5_UnknownVersionRejected ==
    FLAGS_RINEX_version \notin SupportedVersions =>
        /\ phase \notin {"alive", "destroyed"}
        /\ \A s \in Streams : disk[s].exists <=> fs0[s] = "old"

\* C6: on the navigation stream, no header line follows a data record.
C6_NoHeaderAfterFirstRecord ==
    \A i, j \in 1..Len(out["nav"]) :
        (i < j /\ out["nav"][i].op = "log_rinex_nav")
            => out["nav"][j].op # "rinex_nav_header"

\* C7: in version 2, log_rinex_obs returns normally for every satellite
\* count, and has written the epoch line and one line per satellite, also
\* when the satellite list does not fit in 80 columns.
C7_OverflowingEpochIsWritten ==
    (last.op = "log_rinex_obs" /\ version = 2) =>
        /\ exception = "none"
        /\ last.count = Cardinality(DOMAIN last.args.pseudoranges) + 1

\* "G" and the two-digit PRN of the satellites of S from p on, ascending.
RECURSIVE ExpectedSatList(_, _)
ExpectedSatList(S, p) ==
    IF \A q \in S : q < p THEN ""
    ELSE (IF p \in S THEN "G" \o TwoDigits(p) ELSE "") \o ExpectedSatList(S, p + 1)

\* C9: in version 2, for any set of n satellites, log_rinex_obs appends an
\* epoch line whose satellite count is n and whose satellite list is "G" and
\* the two-digit PRN of each satellite in ascending order, then n
\* observation lines of 80 columns.
C9_Version2ObservationRecord ==
    (last.op = "log_rinex_obs" /\ version = 2 /\ isOpen["obs"]) =>
        LET sats == DOMAIN last.args.pseudoranges
            n == Cardinality(sats)
            tail == rightJustify(IntStr(n), 3) \o ExpectedSatList(sats, 1)
        IN  /\ exception = "none"
            /\ last.count = n + 1
            /\ \E k \in 28..29 :
                  SubSeq(LastLine(0), k + 1, k + Len(tail)) = tail
            /\ \A i \in 1..n :
                  /\ out["obs"][last.first + i].op = "log_rinex_obs"
                  /\ Len(LastLine(i)) = 80

\* A broadcast orbit line starts with four blanks, a clock line does not.
IsOrbitLine(t) == SubSeq(t, 1, 4) = Spaces(4)

\* C8: for every ephemeris of the map, log_rinex_nav appends eight lines in
\* the order of the map: a clock line, then seven broadcast orbit lines; in
\* version 3 the clock line starts with "G", the PRN in two digits, a blank
\* and a year of four digits.
C8_EightLinesPerEphemeris ==
    (last.op = "log_rinex_nav" /\ isOpen["nav"]) =>
        /\ last.count = 8 * Cardinality(DOMAIN last.args)
        /\ Len(out["nav"]) = last.first + last.count - 1
        /\ version \in {2, 3} =>
              \A p \in DOMAIN last.args :
                 LET b == 8 * Rank(DOMAIN last.args, p)
                 IN  /\ ~IsOrbitLine(LastLine(b))
                     /\ \A k \in 1..7 : IsOrbitLine(LastLine(b + k))
                     /\ version = 2 =>
                           SubSeq(LastLine(b), 1, 3)
                               = rightJustify(IntStr(p), 2) \o " "
                     /\ version = 3 =>
                           /\ SubSeq(LastLine(b), 1, 4) = "G" \o TwoDigits(p) \o " "
                           /\ IsDigits(SubSeq(LastLine(b), 5, 8))
                           /\ SubSeq(LastLine(b), 9, 9) = " "

\* A version 3 call with the ephemerides of PRN 7 and 12 has written the
\* records of "G07" and of "G12", eight lines apart.
C8_Witness ==
    /\ last.op = "log_rinex_nav" /\ isOpen["nav"] /\ version = 3
    /\ DOMAIN last.args = {7, 12}
    /\ SubSeq(LastLine(0), 1, 4) = "G07 "
    /\ SubSeq(LastLine(8), 1, 4) = "G12 "
    /\ Len(out["nav"]) >= 16

\* floor(snr / 6) for snr in tenths, found by search.
FloorSixth(snr) == CHOOSE k \in -200..200 : 60 * k <= snr /\ snr < 60 * (k + 1)

\* C10: signalStrength(snr) is floor(snr/6) clamped into 1..9: never below 1
\* nor above 9; 54.0 gives 9, 0.0 gives 1 and 30.0 gives 5.
C10_SignalStrengthClamps ==
    (fn.name = "signalStrength" /\ fn.done) =>
        /\ fn.result \in 1..9
        /\ fn.result = (IF FloorSixth(fn.snr) < 1 THEN 1
                        ELSE IF FloorSixth(fn.snr) > 9 THEN 9
                        ELSE FloorSixth(fn.snr))
        /\ fn.snr = 540 => fn.result = 9
        /\ fn.snr = 0 => fn.result = 1
        /\ fn.snr = 300 => fn.result = 5

\* signalStrength has mapped 30.0 dB-Hz to 5.
C10_Witness ==
    fn.name = "signalStrength" /\ fn.done /\ fn.snr = 300 /\ fn.result = 5

(***************************************************************************)
(* The states in which the code departs from a claim.                      *)
(***************************************************************************)
AllAbsent == fs0 = [s \in Streams |-> "absent"]

SatCount == Cardinality(DOMAIN last.args.pseudoranges)

\* With a USER of 26 characters, rinex_obs_header has appended an
\* OBSERVER / AGENCY line of 86 characters.
C1_Failure ==
    /\ FLAGS_RINEX_version \in SupportedVersions /\ isOpen["obs"]
    /\ last.op = "rinex_obs_header"
    /\ last.args = <<"a_user_name_longer_than_20">>
    /\ exception = "none"
    /\ \E k \in 0..(last.count - 1) :
          /\ Len(LastLine(k)) = 86
          /\ SubSeq(LastLine(k), 67, 86) = "OBSERVER / AGENCY   "
    /\ "Bad defined RINEX line" \in diagnostics

\* Only the SBAS stream was written to, and the destructor has removed its
\* file.
C2_Failure ==
    /\ AllAbsent /\ phase = "destroyed"
    /\ out["sbs"] # <<>> /\ out["obs"] = <<>>
    /\ ~disk["sbs"].exists

\* Week 3551, second 0, is 26 January 2048; to_date_time has returned
\* another date.
C3_Failure ==
    /\ fn.name = "to_date_time" /\ fn.done
    /\ fn.gps_week = 3551 /\ fn.gps_tow = 0
    /\ ReferenceDateTime(3551, 0)
          = [year |-> 2048, month |-> 1, day |-> 26, hour |-> 0, minute |-> 0,
             second |-> 0]
    /\ fn.result # ReferenceDateTime(3551, 0)

\* The ephemeris of a block "IIA" satellite with IODC 496 was written with a
\* curve fit interval of 4 hours.
C4_Failure ==
    /\ last.op = "log_rinex_nav" /\ isOpen["nav"] /\ version = 2
    /\ DOMAIN last.args = {5}
    /\ last.args[5].satelliteBlock = "IIA" /\ last.args[5].d_IODC = 496
    /\ CurveFitField(LastLine(7)) = doub2for(4, 18, 2)

\* The writer constructed with version "3.02" is alive, nothing was thrown,
\* and its three files have been created.
C5_Failure ==
    /\ FLAGS_RINEX_version = "3.02" /\ AllAbsent
    /\ phase = "alive" /\ exception = "none"
    /\ \A s \in Streams : disk[s].exists
    /\ diagnostics = {"Unknown RINEX version"}

\* A header of nine lines follows a data record on the navigation stream.
C6_Failure ==
    /\ last.op = "rinex_nav_header" /\ isOpen["nav"] /\ last.count = 9
    /\ last.first > 8
    /\ out["nav"][last.first - 1].op = "log_rinex_nav"
    /\ \A k \in 0..8 : out["nav"][last.first + k].op = "rinex_nav_header"

\* The version 2 call with 17 satellites or more has thrown
\* std::length_error.
C7_Failure ==
    /\ last.op = "log_rinex_obs" /\ version = 2
    /\ SatCount >= MaxSats - 1
    /\ exception = "std::length_error"

\* The version 2 call with satellites 1 to 17 has appended no line at all.
C9_Failure ==
    /\ FLAGS_RINEX_version = "2.11" /\ isOpen["obs"]
    /\ last.op = "log_rinex_obs"
    /\ DOMAIN last.args.pseudoranges = 1..17
    /\ exception # "none"
    /\ out["obs"] = <<>>

(***************************************************************************)
(* Opening the streams and selecting the version.                          *)
(***************************************************************************)
\* C11: when one of the three streams cannot be opened, the failure is
\* surfaced to the caller at construction: the constructor throws or reports
\* it, and no writer with a closed stream is handed to the caller.
C11_OpenFailureSurfaced ==
    (phase = "alive" /\ \E s \in Streams : ~isOpen[s]) =>
        \/ exception # "none"
        \/ \E d \in diagnostics :
              d \notin {"Unknown RINEX version", "Bad defined RINEX line"}

\* The observation file could not be opened; the constructor has returned a
\* live writer, nothing was thrown or logged, and a header written to the
\* closed stream was dropped without a trace.
C11_Failure ==
    /\ FLAGS_RINEX_version = "2.11" /\ fs0["obs"] = "locked"
    /\ phase = "alive" /\ ~isOpen["obs"]
    /\ last.op = "rinex_obs_header" /\ last.args = <<"root">>
    /\ exception = "none" /\ diagnostics = {}
    /\ out["obs"] = <<>> /\ ~disk["obs"].exists

(***************************************************************************)
(* The labels of the header lines.                                         *)
(***************************************************************************)
HeaderOps == {"rinex_nav_header", "rinex_obs_header", "rinex_sbs_header"}

\* The record-type labels of RINEX 2.10 and 3.01 headers.
HeaderLabels ==
    {"RINEX VERSION / TYPE", "PGM / RUN BY / DATE", "COMMENT", "ION ALPHA",
     "ION BETA", "IONOSPHERIC CORR", "DELTA-UTC: A0,A1,T,W", "TIME SYSTEM CORR",
     "LEAP SECONDS", "END OF HEADER", "MARKER NAME", "OBSERVER / AGENCY",
     "REC # / TYPE / VERS", "ANT # / TYPE", "APPROX POSITION XYZ",
     "ANTENNA: DELTA H/E/N", "WAVELENGTH FACT L1/2", "SYS / # / OBS TYPES",
     "# / TYPES OF OBSERV", "SIGNAL STRENGTH UNIT", "TIME OF FIRST OBS",
     "REC INDEX/TYPE/VERS"}

\* Columns 61 to 80 of t hold the label l, padded on the right.
HasLabel(t, l) ==
    Len(t) >= 80 /\ SubSeq(t, 61, 80) = l \o Spaces(20 - Len(l))

\* C13: in versions 2 and 3, every line of rinex_nav_header,
\* rinex_obs_header and rinex_sbs_header has a record-type label in columns
\* 61 to 80, starting in column 61 and padded with blanks, and the last line
\* of each header is the one labelled "END OF HEADER".
C13_HeaderLabels ==
    FLAGS_RINEX_version \in SupportedVersions =>
        /\ \A s \in Streams : \A i \in 1..Len(out[s]) :
              out[s][i].op \in HeaderOps =>
                  \E l \in HeaderLabels : HasLabel(out[s][i].text, l)
        /\ (last.op \in HeaderOps /\ isOpen[last.stream]) =>
              /\ last.count > 0
              /\ HasLabel(LastLine(last.count - 1), "END OF HEADER")

\* With a USER of 26 characters, the label of the OBSERVER / AGENCY line
\* starts in column 67 and columns 61 to 80 hold no label.
C13_Failure ==
    /\ FLAGS_RINEX_version = "3.01" /\ isOpen["obs"]
    /\ last.op = "rinex_obs_header"
    /\ last.args = <<"a_user_name_longer_than_20">>
    /\ \E k \in 0..(last.count - 1) :
          /\ Len(LastLine(k)) = 86
          /\ SubSeq(LastLine(k), 67, 86) = "OBSERVER / AGENCY   "
          /\ \A l \in HeaderLabels : ~HasLabel(LastLine(k), l)
    /\ HasLabel(LastLine(last.count - 1), "END OF HEADER")

(***************************************************************************)
(* The length check, the SBAS record and the curve fit tables.             *)
(***************************************************************************)
\* C15: every line appended to a stream by a header or record operation was
\* passed to lengthCheck before.
C15_EveryLineLengthChecked ==
    \A s \in Streams : \A i \in 1..Len(out[s]) : out[s][i].checked

\* The observation lines of a version 3 record of two satellites were
\* appended without a length check; the epoch line was checked.
C15_Failure ==
    /\ last.op = "log_rinex_obs" /\ isOpen["obs"] /\ version = 3
    /\ last.count = 3
    /\ out["obs"][last.first].checked
    /\ ~out["obs"][last.first + 1].checked
    /\ ~out["obs"][last.first + 2].checked

\* C16: for a payload of at most 36 bytes log_rinex_sbs appends three lines
\* of 80 characters; line 2 has the message type and the first 18 bytes,
\* line 3 the bytes after them, each byte as two hexadecimal digits.
C16_SbasRecord ==
    (last.op = "log_rinex_sbs" /\ isOpen["sbs"] /\ Len(last.args.msg) <= 36) =>
        /\ last.count = 3
        /\ \A k \in 0..2 : Len(LastLine(k)) = 80
        /\ SubSeq(LastLine(1), 2, 3) = rightJustify(IntStr(last.args.msg_type), 2)
        /\ \A i \in 1..Len(last.args.msg) :
              LET c == 8 + 3 * ((i - 1) % 18)
                  b == last.args.msg[i]
              IN  SubSeq(LastLine(IF i <= 18 THEN 1 ELSE 2), c, c + 1)
                      = HexDigit(b \div 16) \o HexDigit(b % 16)

\* A payload of 36 bytes has given a third line of 92 characters.
C16_Failure ==
    /\ last.op = "log_rinex_sbs" /\ isOpen["sbs"]
    /\ Len(last.args.msg) = 36
    /\ last.count = 3
    /\ Len(LastLine(0)) = 80 /\ Len(LastLine(1)) = 80 /\ Len(LastLine(2)) = 92
    /\ "Bad defined RINEX line" \in diagnostics

\* The interval of the IIR/IIR-M/IIF/IIIA table.
IIRTableInterval(iodc) ==
    IF iodc \in 240..247 THEN 8
    ELSE IF iodc \in 248..255 \/ iodc = 496 THEN 14
    ELSE IF iodc \in 497..503 \/ iodc \in 1021..1023 THEN 26
    ELSE 4

\* C17: the block family alone selects the table: a satellite of family
\* IIR, IIR-M, IIF or IIIA gets the interval of the IIR/IIR-M/IIF/IIIA
\* table, and the intervals 50, 74 and 98 are written for family IIA only.
C17_FamilySelectsTable ==
    (last.op = "log_rinex_nav" /\ isOpen["nav"] /\ version \in {2, 3}) =>
        \A p \in DOMAIN last.args :
            LET eph == last.args[p]
                fit == CurveFitField(LastLine(8 * Rank(DOMAIN last.args, p) + 7))
            IN  /\ eph.satelliteBlock \in {"IIR", "IIR-M", "IIF", "IIIA"}
                       => fit = doub2for(IIRTableInterval(eph.d_IODC), 18, 2)
                /\ fit \in {doub2for(50, 18, 2), doub2for(74, 18, 2),
                            doub2for(98, 18, 2)}
                       => eph.satelliteBlock = "IIA"

\* The ephemeris of a block "IIR" satellite with IODC 757 was written with
\* the interval of 98 hours of the IIA table.
C17_Failure ==
    /\ last.op = "log_rinex_nav" /\ isOpen["nav"] /\ version = 3
    /\ DOMAIN last.args = {5}
    /\ last.args[5].satelliteBlock = "IIR" /\ last.args[5].d_IODC = 757
    /\ CurveFitField(LastLine(7)) = doub2for(98, 18, 2)

(***************************************************************************)
(* The version 3 observation lines and the reference week of the header.   *)
(***************************************************************************)
\* The text sub stands somewhere in t.
Contains(t, sub) ==
    \E k \in 1..(Len(t) - Len(sub) + 1) : SubSeq(t, k, k + Len(sub) - 1) = sub

\* The observation line of satellite p in the last record.
ObsLineOf(p) == LastLine(1 + Rank(DOMAIN last.args.pseudoranges, p))

\* C18: in version 3, the observation line of each satellite carries, after
\* the satellite id, its pseudorange, the loss-of-lock indicator, the
\* carrier phase in cycles, the Doppler and the carrier-to-noise value.
C18_Version3ObservationLine ==
    (last.op = "log_rinex_obs" /\ isOpen["obs"] /\ version = 3
     /\ exception = "none") =>
        \A p \in DOMAIN last.args.pseudoranges :
            LET obs == last.args.pseudoranges[p]
                line == ObsLineOf(p)
            IN  /\ SubSeq(line, 1, 3) = "G" \o TwoDigits(p)
                /\ SubSeq(line, 4, 17)
                       = rightJustify(asString(obs.Pseudorange_m, 0, 3), 14)
                /\ SubSeq(line, 18, 18) = " "
                /\ Contains(line, rightJustify(
                       asString(PhaseCycles(obs.Carrier_phase_rads), 3, 3), 14))
                /\ Contains(line, rightJustify(
                       asString(obs.Carrier_Doppler_hz, 3, 3), 14))
                /\ Contains(line, rightJustify(asString(obs.CN0_dB_hz, 3, 3), 14))

\* The version 3 line of satellite 3 ends after the pseudorange and two
\* indicator columns: columns 20 to 80 are blank.
C18_Failure ==
    /\ last.op = "log_rinex_obs" /\ isOpen["obs"] /\ version = 3
    /\ DOMAIN last.args.pseudoranges = {3, 12}
    /\ SubSeq(ObsLineOf(3), 1, 17) = "G03  20003000.000"
    /\ SubSeq(ObsLineOf(3), 20, 80) = Spaces(61)
    /\ ~Contains(ObsLineOf(3), "-3999.250")

\* C19: in version 3, the signal strength digit of a satellite's observation
\* line is signalStrength of that satellite's own carrier-to-noise value.
C19_OwnSignalStrength ==
    (last.op = "log_rinex_obs" /\ isOpen["obs"] /\ version = 3
     /\ exception = "none") =>
        \A p \in DOMAIN last.args.pseudoranges :
            SubSeq(ObsLineOf(p), 19, 19)
                = IntStr(signalStrength(last.args.pseudoranges[p].CN0_dB_hz \div 100))

\* Satellites 3 and 12, at 33 and 42 dB-Hz, map to 5 and 7; both lines carry
\* the digit 9.
C19_Failure ==
    /\ last.op = "log_rinex_obs" /\ isOpen["obs"] /\ version = 3
    /\ DOMAIN last.args.pseudoranges = {3, 12}
    /\ signalStrength(last.args.pseudoranges[3].CN0_dB_hz \div 100) = 5
    /\ signalStrength(last.args.pseudoranges[12].CN0_dB_hz \div 100) = 7
    /\ SubSeq(ObsLineOf(3), 19, 19) = "9"
    /\ SubSeq(ObsLineOf(12), 19, 19) = "9"

\* The reference week field of the time system correction line.
ReferenceWeekField(line) ==
    IF version = 2 THEN SubSeq(line, 51, 59) ELSE SubSeq(line, 46, 50)

\* C20: the reference week on the time system correction line of the
\* navigation header is (WN_T mod 1024) + 1024, a week in 1024..2047.
C20_ReferenceWeek ==
    (last.op = "rinex_nav_header" /\ isOpen["nav"] /\ version \in {2, 3}) =>
        LET week == (last.args.i_WN_T % 1024) + 1024
            field == ReferenceWeekField(LastLine(6))
        IN  /\ week \in 1024..2047
            /\ field = rightJustify(IntStr(week), Len(field))

\* For WN_T = 1190 the version 2 header carries week 2214.
C20_Failure ==
    /\ last.op = "rinex_nav_header" /\ isOpen["nav"] /\ version = 2
    /\ last.args.i_WN_T = 1190
    /\ HasLabel(LastLine(6), "DELTA-UTC: A0,A1,T,W")
    /\ ReferenceWeekField(LastLine(6)) = "     2214"

(***************************************************************************)
(* The version selected at construction.                                   *)
(***************************************************************************)
\* The layout and the version string the configured value stands for.
ConfiguredLayout == IF FLAGS_RINEX_version = "3.01" THEN 3 ELSE 2
ConfiguredString == IF FLAGS_RINEX_version = "3.01" THEN "3.01" ELSE "2.10"

\* C12: "2.11" and "2.10" select the version 2 layout and the version string
\* "2.10", "3.01" selects the version 3 layout and the version string "3.01";
\* from construction on, whatever headers and records are written, the
\* selection stays, the navigation and observation headers carry that version
\* string, and headers and records have that layout.
C12_VersionSelectedOnce ==
    (phase # "start" /\ FLAGS_RINEX_version \in SupportedVersions) =>
        /\ version = ConfiguredLayout
        /\ stringVersion = ConfiguredString
        /\ \A s \in {"nav", "obs"} : \A i \in 1..Len(out[s]) :
              LET r == out[s][i]
              IN  /\ HasLabel(r.text, "RINEX VERSION / TYPE") =>
                         SubSeq(r.text, 1, 20)
                             = Spaces(5) \o ConfiguredString \o Spaces(11)
                  /\ (r.op = "rinex_nav_header"
                      /\ HasLabel(r.text, "RINEX VERSION / TYPE")) =>
                         SubSeq(r.text, 21, 37)
                             = (IF ConfiguredLayout = 3 THEN "N: GNSS NAV DATA "
                                ELSE "N: GPS NAV DATA  ")
                  /\ (r.op = "log_rinex_obs" /\ r.checked) =>
                         ((SubSeq(r.text, 1, 1) = ">") <=> ConfiguredLayout = 3)

\* Configured with "2.11", the writer has written a navigation header and
\* then a record: the header carries "2.10" and the selection is unchanged.
C12_Witness ==
    /\ FLAGS_RINEX_version = "2.11" /\ phase = "alive" /\ isOpen["nav"]
    /\ ncalls = 2 /\ last.op = "log_rinex_nav" /\ last.count = 8
    /\ out["nav"][1].op = "rinex_nav_header"
    /\ SubSeq(out["nav"][1].text, 6, 9) = "2.10"
    /\ version = 2 /\ stringVersion = "2.10"

(***************************************************************************)
(* The three streams driven by different callers.                          *)
(***************************************************************************)
\* The lines the call in progress on stream s has yet to write.
Rest(lines, k) == SubSeq(lines, k + 1, Len(lines))

Remaining(s) ==
    IF call[s] = Returned THEN <<>>
    ELSE Rest(Rendered(call[s]), call[s].written)

\* C14: with one caller for each stream and the calls of each stream one
\* after the other, whatever the interleaving of the lines of the calls on
\* different streams, each stream holds what its own calls would have written
\* alone: the lines of each call together, the calls in their order.
C14_StreamsIndependent ==
    \A s \in Streams : out[s] \o Remaining(s) = alone[s]

\* A navigation header and an observation record were written line by line in
\* turns, and a second navigation call has begun after the header was written
\* in part while the observation call was in progress.
C14_Witness ==
    /\ call["nav"] # Returned /\ call["nav"].op = "log_rinex_nav"
    /\ call["nav"].written = 3
    /\ call["obs"] # Returned /\ call["obs"].op = "log_rinex_obs"
    /\ call["obs"].written = 1
    /\ Len(out["nav"]) = 12 /\ out["nav"][9].op = "rinex_nav_header"
    /\ Len(out["obs"]) = 1
    /\ out["sbs"] = <<>>

(***************************************************************************)
(* The code tables.                                                        *)
(***************************************************************************)
\* C21: from construction on, whatever headers and records are written, the
\* satellite-system, observation-code and observation-type tables have the
\* keys and values the constructor gave them: every key looked up is there
\* and no lookup inserts one.
C21_TablesUnchanged ==
    phase # "start" =>
        /\ tables = ConstructedTables
        /\ (last.op \notin {"none", "Rinex_Printer", "~Rinex_Printer"}) =>
              \A t \in TableNames :
                  LookedUp(last.op, version, Enters(last.op, last.args))[t]
                      \subseteq DOMAIN ConstructedTables[t]

\* A version 2 observation header, which subscripts all three tables, was
\* written after an observation record, and the tables are as constructed.
C21_Witness ==
    /\ phase = "alive" /\ version = 2 /\ ncalls = 2
    /\ last.op = "rinex_obs_header" /\ last.first > 1
    /\ out["obs"][1].op = "log_rinex_obs"
    /\ LookedUp(last.op, version, TRUE)["observationType"]
           = {"PSEUDORANGE_CA_v2", "CARRIER_PHASE_CA_v2", "DOPPLER_v2",
              "SIGNAL_STRENGTH_v2"}
    /\ tables = ConstructedTables

(***************************************************************************)
(* The reception time on line 1 of an SBAS record.                         *)
(***************************************************************************)
\* The columns of the timestamp on line 1: after the PRN and one blank.
StampOf(line, prn) == SubSeq(line, Len(IntStr(prn)) + 2, Len(IntStr(prn)) + 20)

\* The seconds field: the last four columns of the timestamp.
SecondsOf(line, prn) == SubSeq(StampOf(line, prn), 16, 19)

\* The message with a reception time.
Timed(m) == [m EXCEPT !.rx_time_valid = TRUE, !.gps_week = 1700, !.gps_sec = 5996]

\* C22: for a message without a valid reception time log_rinex_sbs returns
\* normally with its three lines written; the timestamp columns of line 1 are
\* blank and line 1 is as long as the line 1 of the same message with a
\* reception time.
C22_BlankTimestamp ==
    (last.op = "log_rinex_sbs" /\ isOpen["sbs"] /\ ~last.args.rx_time_valid) =>
        /\ exception = "none"
        /\ last.count = 3 /\ Len(out["sbs"]) = last.first + 2
        /\ StampOf(LastLine(0), last.args.prn) = Spaces(19)
        /\ \A l \in log_rinex_sbs(Timed(last.args)) :
              /\ Len(LastLine(0)) = Len(l[1])
              /\ Len(StampOf(l[1], last.args.prn)) = 19
              /\ SubSeq(LastLine(0), 1, Len(IntStr(last.args.prn)) + 1)
                     = SubSeq(l[1], 1, Len(IntStr(last.args.prn)) + 1)
              /\ SubSeq(LastLine(0), Len(IntStr(last.args.prn)) + 21,
                        Len(LastLine(0)))
                     = SubSeq(l[1], Len(IntStr(last.args.prn)) + 21, Len(l[1]))

\* A message of 32 bytes without reception time: line 1 has 80 columns, as
\* with a reception time, and the three lines are written.
C22_Witness ==
    /\ last.op = "log_rinex_sbs" /\ isOpen["sbs"] /\ ~last.args.rx_time_valid
    /\ Len(last.args.msg) = 32
    /\ last.count = 3
    /\ Len(LastLine(0)) = 80
    /\ SubSeq(LastLine(0), 1, 25) = "120" \o Spaces(22)

\* A seconds field of four columns with one decimal, from tenths.
SecondsField(tenths) == rightJustify(asString(tenths, 1, 1), 4)

\* C23: the seconds field of line 1 is never 60.0; for a reception time
\* within the range of the int sums of to_date_time it is a value from 0.0 to
\* 59.9, the reception time rounded to tenths: 59.95 s and more are second
\* 0.0 of the next minute.
C23_SecondsBelowSixty ==
    (last.op = "log_rinex_sbs" /\ isOpen["sbs"] /\ last.args.rx_time_valid) =>
        LET f == SecondsOf(LastLine(0), last.args.prn)
            tenths == (last.args.gps_sec + 5) \div 10
        IN  /\ f # SecondsField(600)
            /\ last.args.gps_week < 3550 =>
                  /\ f = SecondsField(tenths % 600)
                  /\ SubSeq(StampOf(LastLine(0), last.args.prn), 13, 14)
                         = TwoDigits((tenths \div 600) % 60)

\* Received at 59.96 s: the field is 0.0 and the minute is the next one.
C23_Witness ==
    /\ last.op = "log_rinex_sbs" /\ isOpen["sbs"] /\ last.args.rx_time_valid
    /\ last.args.gps_week = 1700 /\ last.args.gps_sec = 5996
    /\ SecondsOf(LastLine(0), last.args.prn) = " 0.0"
    /\ SubSeq(StampOf(LastLine(0), last.args.prn), 13, 14) = "01"

(***************************************************************************)
(* The observation types of the header and the values of the records.      *)
(***************************************************************************)
\* The fields of w columns of text t from column c on that are not blank, of
\* at most n.
Fields(t, c, w, n) ==
    Cardinality({k \in 0..(n - 1) :
                    /\ c + (k + 1) * w - 1 <= Len(t)
                    /\ SubSeq(t, c + k * w, c + (k + 1) * w - 1) # Spaces(w)})

\* The number a right-justified field stands for; 0 - 1 when it is none.
CountIn(f) ==
    LET matches == {n \in 0..99 : rightJustify(IntStr(n), Len(f)) = f}
    IN  IF matches = {} THEN 0 - 1 ELSE CHOOSE n \in matches : TRUE

\* The label of the line of observation types.
TypesLabel == IF version = 2 THEN "# / TYPES OF OBSERV" ELSE "SYS / # / OBS TYPES"

\* The count declared on the line of observation types: columns 1 to 6 in
\* version 2, columns 4 to 6 in version 3.
DeclaredTypes(line) ==
    IF version = 2 THEN CountIn(SubSeq(line, 1, 6))
    ELSE CountIn(SubSeq(line, 4, 6))

\* The type codes listed on it: fields of 6 columns from column 7 on in
\* version 2, of 4 columns in version 3, up to column 60.
ListedTypes(line) ==
    IF version = 2 THEN Fields(SubSeq(line, 1, 60), 7, 6, 9)
    ELSE Fields(SubSeq(line, 1, 60), 7, 4, 13)

\* The values on an observation line: fields of 14 columns, each followed by
\* two indicator columns, from column 1 in version 2 and after the satellite
\* id in version 3.
WrittenValues(line) ==
    LET c == IF version = 2 THEN 1 ELSE 4
    IN  Cardinality({k \in 0..4 :
                        /\ c + 16 * k + 13 <= Len(line)
                        /\ SubSeq(line, c + 16 * k, c + 16 * k + 13) # Spaces(14)})

\* C24: the count declared on the line of observation types of the header
\* equals the number of type codes listed on that line, and every observation
\* line of a record carries that many values.
C24_DeclaredTypesMatch ==
    (version \in {2, 3} /\ exception = "none") =>
        \A i \in 1..Len(out["obs"]) :
            (out["obs"][i].op = "rinex_obs_header"
             /\ HasLabel(out["obs"][i].text, TypesLabel)) =>
                /\ DeclaredTypes(out["obs"][i].text) = ListedTypes(out["obs"][i].text)
                /\ \A j \in 1..Len(out["obs"]) :
                      (out["obs"][j].op = "log_rinex_obs" /\ ~out["obs"][j].checked) =>
                          WrittenValues(out["obs"][j].text)
                              = DeclaredTypes(out["obs"][i].text)

\* The line of observation types of a header.
TypesLine == CHOOSE r \in {out["obs"][i] : i \in 1..Len(out["obs"])} :
                 r.op = "rinex_obs_header" /\ HasLabel(r.text, TypesLabel)

\* Version 2: the header declares 2 types and lists 4, and the record after
\* it has 4 values for each satellite.
C24_Failure ==
    /\ version = 2 /\ isOpen["obs"] /\ ncalls = 2 /\ exception = "none"
    /\ last.op = "log_rinex_obs" /\ DOMAIN last.args.pseudoranges = {3, 12}
    /\ out["obs"][1].op = "rinex_obs_header"
    /\ SubSeq(TypesLine.text, 1, 30) = "     2    C1    L1    D1    S1"
    /\ DeclaredTypes(TypesLine.text) = 2
    /\ ListedTypes(TypesLine.text) = 4
    /\ WrittenValues(LastLine(1)) = 4

(***************************************************************************)
(* The columns of the version 2 epoch line.                                *)
(***************************************************************************)
\* C25: in version 2, whatever the seconds of the epoch, the epoch line has
\* its epoch flag in column 29, the number of satellites in columns 30 to 32
\* and the first satellite id from column 33 on.
C25_EpochColumnsFixed ==
    (last.op = "log_rinex_obs" /\ isOpen["obs"] /\ version = 2
     /\ exception = "none" /\ DOMAIN last.args.pseudoranges # {}) =>
        /\ SubSeq(LastLine(0), 27, 29) = "  0"
        /\ SubSeq(LastLine(0), 30, 32)
               = rightJustify(IntStr(SatCount), 3)
        /\ SubSeq(LastLine(0), 33, 35)
               = SatId(Head(KeysAscending(DOMAIN last.args.pseudoranges)))

\* At 5.5 s of the minute the seconds take 9 columns instead of 10: the flag
\* is in column 28 and the first satellite id starts in column 32.
C25_Failure ==
    /\ last.op = "log_rinex_obs" /\ isOpen["obs"] /\ version = 2
    /\ last.args.obs_time % 60000 = 5500
    /\ DOMAIN last.args.pseudoranges = {3, 12}
    /\ SubSeq(LastLine(0), 17, 25) = "5.5000000"
    /\ SubSeq(LastLine(0), 26, 28) = "  0"
    /\ SubSeq(LastLine(0), 29, 37) = "  2G03G12"

(***************************************************************************)
(* The two conversions from GPS time to the calendar.                      *)
(***************************************************************************)
\* The date and time compute_GPS_time gives for week w and second t of the
\* week, as the six values to_date_time returns.
ComputedDateTime(w, t) ==
    LET p == compute_GPS_time(w, t * 1000)
    IN  [year |-> p.year, month |-> p.month, day |-> p.day, hour |-> p.hour,
         minute |-> p.minute, second |-> p.second]

\* C26: for every GPS week w >= 0 and whole second t of the week, the date
\* and time to_date_time returns for (w, t) is the date and time
\* compute_GPS_time derives for an ephemeris of week w and time t.
C26_TimePathsAgree ==
    (fn.name = "to_date_time" /\ fn.done) =>
        fn.result = ComputedDateTime(fn.gps_week, fn.gps_tow)

\* Week 100, second 0: to_date_time returns 6 December 1981 and
\* compute_GPS_time 22 July 2001, 1024 weeks later.
C26_Failure ==
    /\ fn.name = "to_date_time" /\ fn.done
    /\ fn.gps_week = 100 /\ fn.gps_tow = 0
    /\ fn.result = [year |-> 1981, month |-> 12, day |-> 6, hour |-> 0,
                    minute |-> 0, second |-> 0]
    /\ ComputedDateTime(100, 0) = [year |-> 2001, month |-> 7, day |-> 22,
                                   hour |-> 0, minute |-> 0, second |-> 0]

(***************************************************************************)
(* The week of a navigation record.                                        *)
(***************************************************************************)
\* The number a text of digits stands for.
RECURSIVE NatOf(_)
NatOf(t) ==
    IF t = "" THEN 0
    ELSE 10 * NatOf(SubSeq(t, 1, Len(t) - 1))
         + (CHOOSE d \in 0..9 : Digit(d) = SubSeq(t, Len(t), Len(t)))

\* The whole number a field of 18 columns with a mantissa of 11 digits and an
\* exponent of two digits stands for.
WholeOf(f) == NatOf(SubSeq(f, 4, 3 + NatOf(SubSeq(f, 17, 18))))

\* The year, month and day on a clock line.
ClockDate(line) ==
    IF version = 2
    THEN [year |-> (IF NatOf(SubSeq(line, 4, 5)) < 80 THEN 2000 ELSE 1900)
                   + NatOf(SubSeq(line, 4, 5)),
          month |-> NatOf(SubSeq(line, 7, 8)), day |-> NatOf(SubSeq(line, 10, 11))]
    ELSE [year |-> NatOf(SubSeq(line, 5, 8)),
          month |-> NatOf(SubSeq(line, 10, 11)), day |-> NatOf(SubSeq(line, 13, 14))]

\* The third field of a broadcast orbit line.
ThirdField(line) ==
    IF version = 2 THEN SubSeq(line, 43, 60) ELSE SubSeq(line, 44, 61)

\* The date of day n of GPS week w.
DateInWeek(w, n) ==
    LET c == CivilFromDays(GpsEpochDay + 7 * w + n)
    IN  [year |-> c.year, month |-> c.month, day |-> c.day]

\* C27: in every navigation record, the GPS week on broadcast orbit line 5,
\* counted from 6 January 1980, is the week of the date on the record's clock
\* line: that date is the day of the ephemeris's time of week in that week.
C27_WeekMatchesEpoch ==
    (last.op = "log_rinex_nav" /\ isOpen["nav"] /\ version \in {2, 3}) =>
        \A p \in DOMAIN last.args :
            LET b == 8 * Rank(DOMAIN last.args, p)
            IN  ClockDate(LastLine(b))
                    = DateInWeek(WholeOf(ThirdField(LastLine(b + 5))),
                                 last.args[p].d_TOW \div secs_per_day)

\* An ephemeris of week 1124, Saturday: the clock line is dated 28 July 2001,
\* in week 1124, and broadcast orbit line 5 carries week 2148.
C27_Failure ==
    /\ last.op = "log_rinex_nav" /\ isOpen["nav"] /\ version = 3
    /\ DOMAIN last.args = {5}
    /\ last.args[5].i_GPS_week = 1124 /\ last.args[5].d_TOW = 518400
    /\ ClockDate(LastLine(0)) = DateInWeek(1124, 6)
    /\ ThirdField(LastLine(5)) = doub2for(2148, 18, 2)
    /\ WholeOf(ThirdField(LastLine(5))) = 2148

C29_ObsHeaderCompletes ==
    (last.op = "rinex_obs_header" /\ isOpen["obs"]) =>
        /\ exception = "none"
        /\ last.count > 0
        /\ Len(out["obs"]) = last.first + last.count - 1
        /\ HasLabel(LastLine(last.count - 1), "END OF HEADER")

\* USER is not set: the call has ended with an exception or a signal after
\* the lines before OBSERVER / AGENCY, and there is no END OF HEADER line.
C29_Failure ==
    /\ last.op = "rinex_obs_header" /\ isOpen["obs"] /\ version = 2
    /\ last.args = <<>>
    /\ exception \in {"std::logic_error", "SIGSEGV"}
    /\ last.count = 6
    /\ \A i \in 1..Len(out["obs"]) : ~HasLabel(out["obs"][i].text, "END OF HEADER")
    /\ \A i \in 1..Len(out["obs"]) : ~HasLabel(out["obs"][i].text, "OBSERVER / AGENCY")

====
